---- MODULE Spec2Model ----
(***************************************************************************)
(* Model of the recording workflow orchestrator of the radio stream        *)
(* recorder: RecordingService.record_show (services/recording_service.py), *)
(* the RequestQueue / ResourceMonitor / PerformanceMonitor it consults     *)
(* (utils/performance_monitor.py) and the retry loop of the capture        *)
(* adapter StreamRecorder.record_stream (services/stream_recorder.py).     *)
(*                                                                         *)
(* Scheduling.  The service runs on one asyncio event loop.  A coroutine   *)
(* keeps the loop until it really suspends.  Every asyncio.Lock of the     *)
(* program guards a body without an await, so no lock is ever held at a    *)
(* suspension and "async with lock" never suspends; the real suspensions   *)
(* of record_show are the waits on the capture subprocess, the back-off    *)
(* sleep, and the two run_in_executor calls.  The variable cur names the   *)
(* call that holds the loop: the statements between two suspensions are    *)
(* separate actions (so that every intermediate state is a state of the    *)
(* model) but no other call is scheduled between them.                     *)
(*                                                                         *)
(* Spec and the specifications built on its actions take record_stream as  *)
(* one step per call (CaptureDone) and let the capture of call c be        *)
(* tracked under a key of its own.  SpecCapture takes the capture adapter  *)
(* attempt by attempt, with the second of each start as the tracking key,  *)
(* and SpecMonitor takes the monitoring task with its failures, its stop   *)
(* and its restart.                                                        *)
(***************************************************************************)
EXTENDS Naturals, Integers, Sequences, FiniteSets, Bags, TLC

VARIABLES
    rq_active,        \* RequestQueue._active_recordings : id -> RecordingMetrics
    queue_size,       \* RequestQueue._queue.qsize()
    legacy_active,    \* RecordingService._active_recordings (its keys)
    recording_stats,  \* RecordingService._recording_stats
    recovery_log,     \* recovery.log : bag of appended records
    metrics_history,  \* ResourceMonitor._metrics_history (bounded deque)
    alert_states,     \* ResourceMonitor._alert_states
    next_id,          \* number of record_show calls made so far + 1
    cur,              \* the call that holds the event loop, 0 when none does
    pc,               \* per call: where record_show stands
    req,              \* per call: the arguments (show_key, duration_minutes)
    result,           \* per call: the result dictionary under construction
    local,            \* per call: temp_files_to_cleanup, pending error, attempt
    trace,            \* per call: collaborators invoked, current_step values seen
    active_processes, \* StreamRecorder._active_processes : key -> process
    capture_running,  \* the capture processes that have not exited
    clock,            \* int(time.time()), counted from the service's start
    stop_all,         \* the frame of stop_all_recordings
    retry_delay,      \* StreamRecorder.retry_delay, seconds
    monitor_task      \* ResourceMonitor: _stop_event, _monitoring_task

vars == <<rq_active, queue_size, legacy_active, recording_stats, recovery_log,
          metrics_history, alert_states, next_id, cur, pc, req, result, local,
          trace, active_processes, capture_running, clock, stop_all,
          retry_delay, monitor_task>>

----------------------------------------------------------------------------
(* Bounds of the model and constants of the program.                       *)

MaxCalls == 4               \* record_show calls made in one behaviour
HistorySize == 1            \* deque(maxlen=history_size), shrunk from 100
CaptureCalls == 2           \* record_stream calls of a direct client
MaxClock == 5               \* seconds the clock can show
MaxErrors == 3              \* failed monitoring iterations that are counted

MaxConcurrent == 3          \* max_concurrent_recordings
max_retries == 3            \* StreamRecorder(max_retries=3)
default_retry_delay == 5    \* StreamRecorder(retry_delay=5)
MaxBackoff == 60            \* longest back-off sleep, seconds
MaxDuration == 480          \* longest accepted duration_minutes

MaxQueueSize == MaxConcurrent * 2

Calls == 1 .. MaxCalls

Steps == <<"validation", "temp_path_generation", "stream_recording",
           "metadata_processing", "file_transfer", "cleanup">>

\* The order the state machine of current_step prescribes.
StepRank(s) ==
    CASE s = "not_started"          -> 0
      [] s = "validation"           -> 1
      [] s = "temp_path_generation" -> 2
      [] s = "stream_recording"     -> 3
      [] s = "metadata_processing"  -> 4
      [] s = "file_transfer"        -> 5
      [] s = "cleanup"              -> 6
      [] OTHER                      -> 7

Range(f) == {f[x] : x \in DOMAIN f}

IsPrefix(s, t) == Len(s) <= Len(t) /\ \A i \in 1 .. Len(s) : s[i] = t[i]

\* A function without the key k.
Without(f, k) == [x \in DOMAIN f \ {k} |-> f[x]]

\* A function with f[k] = v, k new or old.
With(f, k, v) == [x \in DOMAIN f \cup {k} |-> IF x = k THEN v ELSE f[x]]

----------------------------------------------------------------------------
(* RequestQueue: the active-recording registry.                            *)

\* RecordingMetrics as built by register_active_recording.  The timestamps
\* and the numeric values of step_timings / file_sizes are wall-clock and
\* byte measurements; the model keeps the keys.
NewRecordingMetrics(show, duration) ==
    [show_key         |-> show,
     duration_minutes |-> duration,
     current_step     |-> "not_started",
     steps_completed  |-> <<>>,
     step_timings     |-> {},
     file_sizes       |-> {},
     error_count      |-> 0]

\* Fault seeded for C1: registration without the capacity check.
RegisterAlways(reg) == TRUE

\* register_active_recording: the value it returns (False at capacity).
RegisterAccepts(reg) == Cardinality(DOMAIN reg) < MaxConcurrent

\* register_active_recording: the registry it leaves.
register_active_recording(reg, id, show, duration) ==
    IF RegisterAccepts(reg)
    THEN With(reg, id, NewRecordingMetrics(show, duration))
    ELSE reg

\* Fault seeded for C2: an unregistration that removes nothing.
UnregisterNothing(reg, id) == reg

\* unregister_active_recording.
unregister_active_recording(reg, id) ==
    IF id \in DOMAIN reg THEN Without(reg, id) ELSE reg

\* Fault seeded for C16: the step is appended on every call.
UpdateProgressAlwaysAppends(reg, id, step, kw) ==
    IF id \in DOMAIN reg
    THEN LET m == reg[id] IN
         With(reg, id,
              [m EXCEPT
                 !.current_step = step,
                 !.steps_completed = Append(m.steps_completed, step),
                 !.step_timings =
                     IF "step_timing" \in kw THEN @ \cup {step} ELSE @,
                 !.file_sizes =
                     IF "file_size" \in kw THEN @ \cup {step} ELSE @])
    ELSE reg

\* Fault seeded for C17: the metrics are stored but the step is not
\* appended to steps_completed.
UpdateProgressMetricsOnly(reg, id, step, kw) ==
    IF id \in DOMAIN reg
    THEN LET m == reg[id] IN
         With(reg, id,
              [m EXCEPT
                 !.current_step = step,
                 !.step_timings =
                     IF "step_timing" \in kw THEN @ \cup {step} ELSE @,
                 !.file_sizes =
                     IF "file_size" \in kw THEN @ \cup {step} ELSE @])
    ELSE reg

\* Fault seeded for C30: an unknown recording_id gets an entry.
UpdateProgressCreatesEntry(reg, id, step, kw) ==
    LET m == IF id \in DOMAIN reg THEN reg[id]
             ELSE [current_step |-> "", steps_completed |-> <<>>,
                   step_timings |-> {}, file_sizes |-> {}]
    IN With(reg, id,
            [m EXCEPT
               !.current_step = step,
               !.steps_completed =
                   IF step \in Range(m.steps_completed) THEN @
                   ELSE Append(@, step)])

\* update_recording_progress(id, step, **metrics); kw is the set of keyword
\* names passed ("step_timing", "file_size", "error").
update_recording_progress(reg, id, step, kw) ==
    IF id \in DOMAIN reg
    THEN LET m == reg[id] IN
         With(reg, id,
              [m EXCEPT
                 !.current_step = step,
                 !.steps_completed =
                     IF step \in Range(m.steps_completed)
                     THEN m.steps_completed
                     ELSE Append(m.steps_completed, step),
                 !.step_timings =
                     IF "step_timing" \in kw THEN @ \cup {step} ELSE @,
                 !.file_sizes =
                     IF "file_size" \in kw THEN @ \cup {step} ELSE @,
                 !.error_count =
                     IF "error" \in kw THEN @ + 1 ELSE @])
    ELSE reg

\* get_queue_status.
get_queue_status(reg, qsize) ==
    [queue_size        |-> qsize,
     max_queue_size    |-> MaxQueueSize,
     active_recordings |-> Cardinality(DOMAIN reg),
     max_concurrent    |-> MaxConcurrent,
     available_slots   |-> MaxConcurrent - Cardinality(DOMAIN reg)]

----------------------------------------------------------------------------
(* ResourceMonitor: threshold alarms and the summary.                      *)

cpu_threshold == 80
memory_threshold == 85
disk_threshold == 90

\* A ResourceMetrics sample, reduced to the fields the program reads.
Sample(cpu, mem, disk, free) ==
    [cpu_percent |-> cpu, memory_percent |-> mem,
     disk_usage_percent |-> disk, disk_free_gb |-> free]

\* Fault seeded for C25: an alarm, once set, is never cleared.
AlarmLatched(state, exceeded) == state \/ exceeded

\* One alarm of _check_thresholds: set on normal -> exceeded, cleared on
\* exceeded -> normal, otherwise left as it is.
Alarm(state, exceeded) ==
    IF exceeded
    THEN (IF ~state THEN TRUE ELSE state)
    ELSE (IF state THEN FALSE ELSE state)

\* _check_thresholds: the alert states after one sample.
check_thresholds(alerts, m) ==
    [cpu    |-> Alarm(alerts.cpu, m.cpu_percent > cpu_threshold),
     memory |-> Alarm(alerts.memory, m.memory_percent > memory_threshold),
     disk   |-> Alarm(alerts.disk, m.disk_usage_percent > disk_threshold)]

\* What one alarm of _check_thresholds logs for a sample: a warning
\* ("... threshold exceeded") inside "if not self._alert_states[...]", a
\* recovery ("... returned to normal") inside "if self._alert_states[...]".
AlarmEvent(state, exceeded) ==
    IF exceeded
    THEN (IF ~state THEN "warning" ELSE "none")
    ELSE (IF state THEN "recovery" ELSE "none")

\* _check_thresholds: what each alarm logs for one sample.
threshold_events(alerts, m) ==
    [cpu    |-> AlarmEvent(alerts.cpu, m.cpu_percent > cpu_threshold),
     memory |-> AlarmEvent(alerts.memory, m.memory_percent > memory_threshold),
     disk   |-> AlarmEvent(alerts.disk, m.disk_usage_percent > disk_threshold)]

\* deque(maxlen=history_size).append
HistoryAppend(h, m) ==
    IF Len(h) < HistorySize THEN Append(h, m)
    ELSE Append(SubSeq(h, 2, Len(h)), m)

\* get_resource_summary, reduced to status and current.
get_resource_summary(h, alerts) ==
    IF h = <<>>
    THEN [status |-> "no_data", current |-> Sample(0, 0, 0, 0)]
    ELSE [status  |-> IF alerts.cpu \/ alerts.memory \/ alerts.disk
                      THEN "warning" ELSE "healthy",
          current |-> h[Len(h)]]

----------------------------------------------------------------------------
(* PerformanceMonitor.can_accept_recording.                                *)

\* Fault seeded for C4: the capacity rule never fires.
RuleQueueFullNever(qs) == FALSE

RuleQueueFull(qs) ==
    qs.available_slots <= 0 /\ qs.queue_size >= qs.max_queue_size

\* Fault seeded for C20: the memory rule refuses short recordings too.
RuleMemoryAnyDuration(rs, duration) ==
    rs.status = "warning" /\ rs.current.memory_percent > 90

RuleMemory(rs, duration) ==
    rs.status = "warning" /\ rs.current.memory_percent > 90 /\ duration > 60

RuleCpu(rs) == rs.status = "warning" /\ rs.current.cpu_percent > 95

RuleDisk(rs) == rs.status = "warning" /\ rs.current.disk_free_gb < 1

can_accept_recording(reg, qsize, h, alerts, duration) ==
    LET qs == get_queue_status(reg, qsize)
        rs == get_resource_summary(h, alerts)
        reasons ==
            (IF RuleQueueFull(qs)
             THEN <<"Queue is full and no recording slots available">>
             ELSE <<>>)
         \o (IF RuleMemory(rs, duration)
             THEN <<"High memory usage - rejecting long recordings">>
             ELSE <<>>)
         \o (IF RuleCpu(rs) THEN <<"Very high CPU usage">> ELSE <<>>)
         \o (IF RuleDisk(rs) THEN <<"Insufficient disk space">> ELSE <<>>)
    IN [can_accept      |-> ~(RuleQueueFull(qs) \/ RuleMemory(rs, duration)
                              \/ RuleCpu(rs) \/ RuleDisk(rs)),
        reasons         |-> reasons,
        queue_status    |-> qs,
        resource_status |-> rs.status]

----------------------------------------------------------------------------
(* RecordingService: values local to one record_show call.                 *)

\* result as initialised at the top of record_show.
InitResult ==
    [success             |-> FALSE,
     steps_completed     |-> <<>>,
     step_timings        |-> {},
     temp_files_retained |-> FALSE,
     error_step          |-> "none",
     error_details       |-> [kind |-> "none", retryable |-> FALSE,
                              reasons |-> <<>>]]

NoError == [step |-> "none", retryable |-> FALSE, class |-> "none"]

\* temp_files_to_cleanup, the exception on its way to the outer handlers,
\* and, once record_stream returned False, how many attempts it made.
\* Of the frames of record_stream and _execute_recording: recording_id,
\* the key under which the running capture process is tracked (0 when none
\* runs), and, where the loop is taken attempt by attempt, last_error and
\* the seconds of the latest back-off sleep.
InitLocal ==
    [temp_files |-> <<>>, err |-> NoError, attempts |-> 0, key |-> 0,
     last_error |-> "none", delay |-> 0]

\* What can_accept_recording answered for a call: whether the registry
\* was at the ceiling when it was asked, whether the queue was full as
\* well, the answer, and whether the check left the registry as it was.
NoAdmission ==
    [made |-> FALSE, at_ceiling |-> FALSE, queue_full |-> FALSE,
     can_accept |-> FALSE, reasons |-> <<>>, active_unchanged |-> TRUE]

\* What the model remembers of a call besides the program's own state: the
\* admission answer, the collaborators it invoked, the values current_step
\* took in its RecordingMetrics, what the transfer and the temp-file
\* cleanup reported, and whether writing the recovery record failed.
InitTrace ==
    [admission |-> NoAdmission, admitted |-> FALSE, invoked |-> <<>>,
     steps_seen |-> <<>>, transfer |-> "none", cleanup_ok |-> TRUE,
     log_failed |-> FALSE]

NoRequest == [show_key |-> "", duration_minutes |-> 0, is_int |-> TRUE]

\* _generate_unique_temp_path(recording_id, "recording")
RawPath(id) == [kind |-> "recording", recording_id |-> id, show |-> ""]

\* MetadataProcessor._generate_filename: "<date> <show>.mp3" in work_dir.
Mp3Path(show) == [kind |-> "mp3", recording_id |-> 0, show |-> show]

\* The shows of config_shows.json; every show's station resolves to an
\* http(s) URL (ConfigManager validates both when it loads).
ConfiguredShows == {"morning-show"}

----------------------------------------------------------------------------
(* _validate_and_register_recording.                                       *)

\* Fault seeded for C35: the validation without its concurrency check.
ValidationFailureNoCeiling(legacy, r, env) ==
    IF ~env.config_loaded THEN "configuration_validation"
    ELSE IF r.show_key \notin ConfiguredShows THEN "configuration_validation"
    ELSE IF ~r.is_int THEN "parameter_validation"
    ELSE IF r.duration_minutes <= 0 THEN "parameter_validation"
    ELSE IF r.duration_minutes > MaxDuration THEN "parameter_validation"
    ELSE IF ~env.workdir_writable THEN "system_validation"
    ELSE "none"

\* The step of the error the validation raises, "none" when it passes.
\* env is what the validation finds outside the request: whether the
\* configuration is loaded, whether the work directory takes a probe file,
\* and the free space of its disk in MB.  The disk check raises its
\* ValidationError inside a try whose "except Exception" swallows it, so
\* free space never fails the validation.
ValidationFailure(legacy, r, env) ==
    IF Cardinality(legacy) >= MaxConcurrent THEN "concurrency_check"
    ELSE IF ~env.config_loaded THEN "configuration_validation"
    ELSE IF r.show_key \notin ConfiguredShows THEN "configuration_validation"
    ELSE IF ~r.is_int THEN "parameter_validation"
    ELSE IF r.duration_minutes <= 0 THEN "parameter_validation"
    ELSE IF r.duration_minutes > MaxDuration THEN "parameter_validation"
    ELSE IF ~env.workdir_writable THEN "system_validation"
    ELSE "none"

\* _unregister_recording
unregister_recording(legacy, id) == legacy \ {id}

----------------------------------------------------------------------------
(* StreamRecorder: what one capture attempt can end in, and the retry      *)
(* decision of record_stream.                                              *)

AttemptOutcomes ==
    {"ok",            \* exit code 0, output file present and non-empty
     "network",       \* NetworkError
     "stream",        \* StreamError from a stream pattern
     "protocol",      \* StreamError, "protocol not found" / "invalid url"
     "unknown_exit",  \* StreamError, no pattern matched
     "timeout",       \* StreamError after the watchdog killed the process
     "filesystem",    \* FileSystemError from a file system pattern
     "empty_output",  \* FileSystemError: exit code 0, file missing or empty
     "no_ffmpeg",     \* FileSystemError from FileNotFoundError
     "unexpected"}    \* RecordingError wrapping any other exception

\* The retryable attribute of the exception _execute_recording raises.
\* _analyze_ffmpeg_error computes retryable = False for protocol / URL
\* errors but returns only the class and the message, and StreamError
\* defaults to retryable = True.
\* Fault seeded for C31: a watchdog timeout is not retried.
RetryableExceptTimeout(outcome) ==
    outcome \notin {"filesystem", "empty_output", "no_ffmpeg", "timeout"}

\* Fault seeded for C22: every error counts as retryable.
RetryableAlways(outcome) == TRUE

Retryable(outcome) ==
    outcome \notin {"filesystem", "empty_output", "no_ffmpeg"}

\* Fault seeded for C21: the loop has no last attempt.
RetryAfterUnbounded(attempt, outcome) ==
    outcome # "ok" /\ Retryable(outcome)

\* Whether the for loop of record_stream runs another attempt after
\* attempt number `attempt` (from 0) ended in `outcome`.
RetryAfter(attempt, outcome) ==
    outcome # "ok" /\ Retryable(outcome) /\ attempt < max_retries

\* Fault seeded for C32: the back-off sleep has no ceiling.
BackoffDelayUncapped(base, attempt) == base * 2 ^ (attempt - 1)

\* Lines 100-101: the seconds record_stream sleeps before attempt number
\* `attempt` (from 1; attempt 0 has no sleep).
BackoffDelay(base, attempt) ==
    IF base * 2 ^ (attempt - 1) < MaxBackoff
    THEN base * 2 ^ (attempt - 1) ELSE MaxBackoff

\* The for loop of record_stream from attempt number `attempt` on:
\* whether it returns True, how many times _execute_recording ran, and
\* the outcome of the last run.  Between two attempts it sleeps
\* min(retry_delay * 2^(attempt-1), 60) seconds.
RECURSIVE RunAttempts(_, _)
RunAttempts(outs, attempt) ==
    LET o == outs[attempt + 1] IN
    IF o = "ok"
    THEN [success |-> TRUE, attempts |-> attempt + 1, last_error |-> "none"]
    ELSE IF RetryAfter(attempt, o)
    THEN RunAttempts(outs, attempt + 1)
    ELSE [success |-> FALSE, attempts |-> attempt + 1, last_error |-> o]

\* record_stream, its arguments having passed the validation of
\* record_show (http(s) URL, duration in 1..480).
record_stream(outs) == RunAttempts(outs, 0)

----------------------------------------------------------------------------
(* StreamRecorder: the capture processes and their tracking.               *)

\* The capture process a call started on its attempt-th attempt.
Process(call, attempt) == [call |-> call, attempt |-> attempt]

\* stop_all_recordings before it is called: where it stands, the entries
\* of its snapshot it has not dealt with yet, and the processes that were
\* running when it was called.
InitStopAll == [phase |-> "idle", todo |-> <<>>, in_flight |-> {}]

\* list(self._active_processes.items()): the entries in insertion order.
\* Keys are seconds, so the order of insertion is the order of the keys.
RECURSIVE Items(_)
Items(table) ==
    IF DOMAIN table = {} THEN <<>>
    ELSE LET k == CHOOSE x \in DOMAIN table :
                      \A y \in DOMAIN table : x <= y
         IN <<[key |-> k, process |-> table[k]]>> \o Items(Without(table, k))

\* The loop of stop_all_recordings from the entry at the head of todo up
\* to its next suspension.  An entry whose process has exited is only
\* popped; a running one is sent SIGTERM and waited for (waiting = TRUE),
\* its entry popped when the wait is over.
RECURSIVE StopLoop(_, _, _)
StopLoop(table, todo, running) ==
    IF todo = <<>>
    THEN [table |-> table, todo |-> todo, running |-> running,
          waiting |-> FALSE]
    ELSE IF Head(todo).process \in running
    THEN [table |-> table, todo |-> todo,
          running |-> running \ {Head(todo).process}, waiting |-> TRUE]
    ELSE StopLoop(Without(table, Head(todo).key), Tail(todo), running)

----------------------------------------------------------------------------
(* ResourceMonitor: the monitoring task.                                   *)

\* After start_monitoring: the task runs, _stop_event is clear, and no
\* iteration has logged "Error in monitoring loop" yet.  alive, cancelled:
\* _monitoring_task is not done, has a cancellation to come; loops: the
\* tasks of _monitoring_loop that are not done; stopper: where a call of
\* stop_monitoring stands ("waiting" in wait_for, "finished" or "timeout"
\* once the task it waits for has ended by itself or was cancelled by
\* wait_for and the call has not run on yet).
InitMonitorTask ==
    [alive |-> TRUE, stop |-> FALSE, errors |-> 0, cancelled |-> FALSE,
     loops |-> 1, stopper |-> "none"]

\* start_monitoring, lines 306-310: with no task or a finished one the
\* stop event is cleared and a new task is created; otherwise nothing.
start_monitoring(task) ==
    IF task.alive THEN task
    ELSE [task EXCEPT !.alive = TRUE, !.stop = FALSE, !.cancelled = FALSE,
                      !.loops = @ + 1]

\* _monitoring_task will go through another iteration of its loop unless
\* it is stopped.
Running(task) == task.alive /\ ~task.cancelled

\* Fault seeded for C26: an exception ends the monitoring loop.
IterationFailedEndsLoop(task) ==
    [task EXCEPT !.errors = @ + 1, !.alive = FALSE]

\* The "except Exception" of _monitoring_loop: the error is logged and
\* the loop sleeps for the interval.
IterationFailed(task) == [task EXCEPT !.errors = @ + 1]

----------------------------------------------------------------------------
(* RecoveryManager.log_failure_for_recovery: the record it appends.        *)

\* Fault seeded for C11: the record is written without the temp files.
RecoveryRecordNoFiles(id, show, temp_files, err) ==
    [recording_id |-> id,
     show_key     |-> show,
     temp_files   |-> <<>>,
     step         |-> IF err.class = "unexpected" THEN "none" ELSE err.step]

RecoveryRecord(id, show, temp_files, err) ==
    [recording_id |-> id,
     show_key     |-> show,
     temp_files   |-> temp_files,
     step         |-> IF err.class = "unexpected" THEN "none" ELSE err.step]

\* Fault seeded for C10: the failure is logged twice.
LogFailureTwice(log, id, show, temp_files, err, io_ok) ==
    IF io_ok
    THEN log (+) SetToBag({RecoveryRecord(id, show, temp_files, err)})
             (+) SetToBag({RecoveryRecord(id, show, temp_files, err)})
    ELSE log

\* Fault seeded for C27: a record is appended although the write failed.
LogFailureIgnoresWriteError(log, id, show, temp_files, err, io_ok) ==
    log (+) SetToBag({RecoveryRecord(id, show, temp_files, err)})

\* The log after the call; io_ok is FALSE when building or writing the
\* record raises, which the method swallows.
log_failure_for_recovery(log, id, show, temp_files, err, io_ok) ==
    IF io_ok
    THEN log (+) SetToBag({RecoveryRecord(id, show, temp_files, err)})
    ELSE log

\* Number of records of the log that carry this recording_id.
LogCount(log, id) ==
    LET recs == {r \in BagToSet(log) : r.recording_id = id}
        RECURSIVE Sum(_)
        Sum(S) == IF S = {} THEN 0
                  ELSE LET r == CHOOSE x \in S : TRUE
                       IN CopiesIn(r, log) + Sum(S \ {r})
    IN Sum(recs)

----------------------------------------------------------------------------
(* _recording_context: the statistics at entry and at exit.                *)

ContextEnter(stats) ==
    [stats EXCEPT !.total_recordings = @ + 1]

\* exc: whether an exception leaves the body of the "async with".
ContextExit(stats, exc) ==
    IF exc
    THEN [stats EXCEPT !.failed_recordings = @ + 1]
    ELSE [stats EXCEPT !.successful_recordings = @ + 1]

----------------------------------------------------------------------------
(* Initial state: the service as constructed, monitoring started, nothing  *)
(* sampled yet.                                                            *)

InitService ==
    /\ rq_active = <<>>
    /\ queue_size = 0
    /\ legacy_active = {}
    /\ recording_stats = [total_recordings |-> 0, successful_recordings |-> 0,
                          failed_recordings |-> 0]
    /\ recovery_log = EmptyBag
    /\ metrics_history = <<>>
    /\ alert_states = [cpu |-> FALSE, memory |-> FALSE, disk |-> FALSE]
    /\ next_id = 1
    /\ cur = 0
    /\ pc = [c \in Calls |-> "idle"]
    /\ req = [c \in Calls |-> NoRequest]
    /\ result = [c \in Calls |-> InitResult]
    /\ local = [c \in Calls |-> InitLocal]
    /\ trace = [c \in Calls |-> InitTrace]
    /\ active_processes = <<>>
    /\ capture_running = {}
    /\ clock = 1
    /\ stop_all = InitStopAll
    /\ monitor_task = InitMonitorTask

\* The recorder the service builds: StreamRecorder() with its defaults.
Init == InitService /\ retry_delay = default_retry_delay

----------------------------------------------------------------------------
(* record_show, from the call to its first suspension.                     *)

service_state == <<rq_active, queue_size, legacy_active, recording_stats,
                   recovery_log>>
monitor_state == <<metrics_history, alert_states>>
recorder_state == <<active_processes, capture_running, clock, stop_all,
                    retry_delay>>

\* Fault seeded for C7: the transfer is started where the tagging belongs.
StepCollaboratorSwapped(step) ==
    CASE step = "stream_recording"    -> "capture"
      [] step = "metadata_processing" -> "transfer"
      [] step = "file_transfer"       -> "tagging"
      [] OTHER                        -> "cleanup"

\* The collaborator a workflow step calls: record_stream, process_audio_file
\* (through _process_metadata_with_logging), transfer_file_with_cleanup
\* (through _transfer_file_with_logging) and _cleanup_temp_files.
StepCollaborator(step) ==
    CASE step = "stream_recording"    -> "capture"
      [] step = "metadata_processing" -> "tagging"
      [] step = "file_transfer"       -> "transfer"
      [] OTHER                        -> "cleanup"

\* An exception reaches the outer handlers of record_show.
Raise(id, step, retryable, class) ==
    /\ local' = [local EXCEPT ![id].err =
                    [step |-> step, retryable |-> retryable, class |-> class]]
    /\ pc' = [pc EXCEPT ![id] = "handler"]
    /\ cur' = id

\* Fault seeded for C6: the timing is stored but the step is not appended.
StepTimedOnly(r, step) ==
    [r EXCEPT !.step_timings = @ \cup {step}]

\* A step is appended to result['steps_completed'] with its timing.
StepDone(r, step) ==
    [r EXCEPT !.steps_completed = Append(@, step),
              !.step_timings = @ \cup {step}]

\* Fault seeded for C8: every progress update names the first step, as
\* after copying the call of step 1 without changing its argument.
ProgressNamesFirstStep(id, step, kw) ==
    /\ rq_active' = update_recording_progress(rq_active, id, "validation", kw)
    /\ trace' = [trace EXCEPT ![id].steps_seen =
                    IF id \in DOMAIN rq_active
                    THEN Append(@, "validation") ELSE @]

\* The progress update the orchestrator sends for a step, noted in the
\* trace when the registry holds the recording.
Progress(id, step, kw) ==
    /\ rq_active' = update_recording_progress(rq_active, id, step, kw)
    /\ trace' = [trace EXCEPT ![id].steps_seen =
                    IF id \in DOMAIN rq_active THEN Append(@, step) ELSE @]

\* Lines 370-413: the id, the result structure, the admission check and,
\* when rejected, the resource_check result.
RecordShow(id, show, duration, is_int) ==
    /\ cur = 0
    /\ id = next_id
    /\ id \in Calls
    /\ pc[id] = "idle"
    /\ UNCHANGED <<service_state, monitor_state, local>>
    /\ next_id' = next_id + 1
    /\ req' = [req EXCEPT ![id] = [show_key |-> show,
                                   duration_minutes |-> duration,
                                   is_int |-> is_int]]
    /\ LET acc == can_accept_recording(rq_active, queue_size, metrics_history,
                                       alert_states, duration)
       IN IF acc.can_accept
          THEN /\ pc' = [pc EXCEPT ![id] = "admitted"]
               /\ result' = [result EXCEPT ![id] = InitResult]
          ELSE /\ pc' = [pc EXCEPT ![id] = "rejected"]
               /\ result' = [result EXCEPT ![id] =
                     [InitResult EXCEPT
                        !.error_step = "resource_check",
                        !.error_details = [kind |-> "rejection",
                                           retryable |-> FALSE,
                                           reasons |-> acc.reasons]]]
    /\ trace' = [trace EXCEPT
         ![id].admitted = can_accept_recording(rq_active, queue_size,
                              metrics_history, alert_states,
                              duration).can_accept,
         ![id].admission =
             LET acc == can_accept_recording(rq_active, queue_size,
                            metrics_history, alert_states, duration)
                 full == Cardinality(DOMAIN rq_active) = MaxConcurrent
             IN [made |-> TRUE,
                 at_ceiling |-> full,
                 queue_full |-> full /\ queue_size >= MaxQueueSize,
                 can_accept |-> acc.can_accept,
                 reasons |-> acc.reasons,
                 active_unchanged |-> DOMAIN rq_active' = DOMAIN rq_active]]
    /\ cur' = id
    /\ UNCHANGED <<recorder_state, monitor_task>>

\* Lines 415-420: "async with self._recording_context" is entered and the
\* recording is registered with the request queue; the value
\* register_active_recording returns is dropped.
EnterContext(id) ==
    /\ cur = id
    /\ pc[id] = "admitted"
    /\ recording_stats' = ContextEnter(recording_stats)
    /\ rq_active' = register_active_recording(rq_active, id, req[id].show_key,
                                              req[id].duration_minutes)
    /\ pc' = [pc EXCEPT ![id] = "registered"]
    /\ UNCHANGED <<queue_size, legacy_active, recovery_log, monitor_state,
                   next_id, cur, req, result, local, trace>>
    /\ UNCHANGED <<recorder_state, monitor_task>>

\* Lines 431-459: step 1.  Any exception of the validation is wrapped in a
\* ValidationError with step "validation" and retryable False.
Validate(id, env) ==
    /\ cur = id
    /\ pc[id] = "registered"
    /\ LET why == ValidationFailure(legacy_active, req[id], env) IN
       IF why = "none"
       THEN /\ legacy_active' = legacy_active \cup {id}
            /\ result' = [result EXCEPT ![id] = StepDone(@, "validation")]
            /\ Progress(id, "validation", {"step_timing"})
            /\ pc' = [pc EXCEPT ![id] = "validated"]
            /\ UNCHANGED <<local, cur>>
       ELSE /\ Raise(id, "validation", FALSE, "ValidationError")
            /\ UNCHANGED <<legacy_active, result, rq_active, trace>>
    /\ UNCHANGED <<queue_size, recording_stats, recovery_log, monitor_state,
                   next_id, req>>
    /\ UNCHANGED <<recorder_state, monitor_task>>

\* Lines 461-509: the configuration is read again (outside every step's
\* try: an exception of the configuration collaborator here is an
\* unexpected error), step 2 builds the temp path, and step 3 calls
\* record_stream, which starts the first capture attempt and waits.
PrepareCapture(id, config_ok) ==
    /\ cur = id
    /\ pc[id] = "validated"
    /\ IF config_ok
       THEN /\ local' = [local EXCEPT ![id].temp_files = <<RawPath(id)>>,
                                      ![id].key = id]
            /\ result' = [result EXCEPT
                             ![id] = StepDone(@, "temp_path_generation")]
            /\ trace' = [trace EXCEPT ![id].invoked =
                             Append(@, StepCollaborator("stream_recording"))]
            /\ pc' = [pc EXCEPT ![id] = "capture_wait"]
            /\ cur' = 0
            /\ active_processes' =
                  With(active_processes, id, Process(id, 1))
            /\ capture_running' = capture_running \cup {Process(id, 1)}
       ELSE /\ Raise(id, "unexpected", FALSE, "unexpected")
            /\ UNCHANGED <<result, trace, active_processes,
                           capture_running>>
    /\ UNCHANGED <<service_state, monitor_state, next_id, req, clock,
                   stop_all, monitor_task, retry_delay>>

----------------------------------------------------------------------------
(* record_show, the capture step: StreamRecorder.record_stream.            *)

\* record_stream returns.  outs[k] is how the k-th start of the capture
\* tool would end.  On success record_show resumes, completes step 3 and
\* hands the tagging to the worker pool.  On False record_show raises,
\* and the step's "except Exception" wraps that in a WorkflowError of step
\* stream_recording with retryable = True.
CaptureDone(id, outs) ==
    /\ cur = 0
    /\ pc[id] = "capture_wait"
    /\ LET r == record_stream(outs) IN
       IF r.success
       THEN /\ result' = [result EXCEPT
                             ![id] = StepDone(@, "stream_recording")]
            /\ rq_active' = update_recording_progress(rq_active, id,
                                "stream_recording",
                                {"step_timing", "file_size"})
            /\ trace' = [trace EXCEPT
                  ![id].steps_seen =
                      IF id \in DOMAIN rq_active
                      THEN Append(@, "stream_recording") ELSE @,
                  ![id].invoked =
                      Append(@, StepCollaborator("metadata_processing"))]
            /\ pc' = [pc EXCEPT ![id] = "tagging"]
            /\ local' = [local EXCEPT ![id].key = 0]
            /\ UNCHANGED cur
       ELSE /\ local' = [local EXCEPT
                  ![id].err = [step |-> "stream_recording",
                               retryable |-> TRUE,
                               class |-> "WorkflowError"],
                  ![id].attempts = r.attempts,
                  ![id].key = 0]
            /\ pc' = [pc EXCEPT ![id] = "handler"]
            /\ cur' = id
            /\ UNCHANGED <<result, rq_active, trace>>
    /\ active_processes' = Without(active_processes, local[id].key)
    /\ capture_running' = {p \in capture_running : p.call # id}
    /\ UNCHANGED <<queue_size, legacy_active, recording_stats, recovery_log,
                   monitor_state, next_id, req, clock, stop_all,
                   monitor_task, retry_delay>>

----------------------------------------------------------------------------
(* record_show, steps 4 to 6.                                              *)

\* The worker thread finished _process_metadata_with_logging.  On success
\* record_show resumes, completes step 4 and hands
\* _transfer_file_with_logging to the worker pool.
TaggingDone(id, ok) ==
    /\ cur = 0
    /\ pc[id] = "tagging"
    /\ IF ok
       THEN /\ local' = [local EXCEPT ![id].temp_files =
                            Append(@, Mp3Path(req[id].show_key))]
            /\ result' = [result EXCEPT
                             ![id] = StepDone(@, "metadata_processing")]
            /\ Progress(id, "metadata_processing",
                        {"step_timing", "file_size"})
            /\ pc' = [pc EXCEPT ![id] = "transfer"]
            /\ UNCHANGED cur
       ELSE /\ Raise(id, "metadata_processing", FALSE, "WorkflowError")
            /\ UNCHANGED <<result, rq_active, trace>>
    /\ UNCHANGED <<queue_size, legacy_active, recording_stats, recovery_log,
                   monitor_state, next_id, req>>
    /\ UNCHANGED <<recorder_state, monitor_task>>

\* What transfer_file_with_cleanup reports: failure, success with the local
\* file removed, success with the local file left behind.
TransferOutcomes == {"failed", "ok_cleaned", "ok_retained"}

\* Whether _transfer_file_with_logging reaches the transfer collaborator.
\* Its first statement logs at INFO on a plain Logger with 'filename' among
\* the extra keys, which Logger.makeRecord refuses with a KeyError whenever
\* the record is built, that is whenever INFO is enabled for the logger
\* src.services.transfer_service (LOG_LEVEL, INFO unless set otherwise).
TransferReached(info) == ~info

\* The worker thread finished _transfer_file_with_logging.  On success
\* record_show resumes and completes step 5; the cleanup step follows
\* without a suspension.  info: whether the logger emits INFO.
TransferDone(id, outcome, info) ==
    /\ cur = 0
    /\ pc[id] = "transfer"
    /\ IF TransferReached(info) /\ outcome # "failed"
       THEN /\ result' = [result EXCEPT
                  ![id] = [StepDone(@, "file_transfer") EXCEPT
                             !.temp_files_retained =
                                 (outcome = "ok_retained")]]
            /\ rq_active' = update_recording_progress(rq_active, id,
                                "file_transfer", {"step_timing"})
            /\ trace' = [trace EXCEPT
                  ![id].invoked =
                      Append(@, StepCollaborator("file_transfer")),
                  ![id].transfer = outcome,
                  ![id].steps_seen =
                      IF id \in DOMAIN rq_active
                      THEN Append(@, "file_transfer") ELSE @]
            /\ pc' = [pc EXCEPT ![id] = "cleanup"]
            /\ cur' = id
            /\ UNCHANGED local
       ELSE /\ Raise(id, "file_transfer", TRUE, "WorkflowError")
            /\ trace' = [trace EXCEPT
                  ![id].invoked = IF TransferReached(info)
                                  THEN Append(@, StepCollaborator(
                                                     "file_transfer"))
                                  ELSE @,
                  ![id].transfer = IF TransferReached(info)
                                   THEN outcome ELSE "not_reached"]
            /\ UNCHANGED <<result, rq_active>>
    /\ UNCHANGED <<queue_size, legacy_active, recording_stats, recovery_log,
                   monitor_state, next_id, req>>
    /\ UNCHANGED <<recorder_state, monitor_task>>

\* Lines 663-718: step 6 and the success result.  _cleanup_temp_files is
\* called only when the transfer removed its local file; it reports
\* failures by returning False, which only produces a warning.
Cleanup(id, cleanup_ok) ==
    /\ cur = id
    /\ pc[id] = "cleanup"
    /\ trace' = [trace EXCEPT
          ![id].invoked = IF result[id].temp_files_retained
                          THEN @
                          ELSE Append(@, StepCollaborator("cleanup")),
          ![id].cleanup_ok = result[id].temp_files_retained \/ cleanup_ok]
    /\ result' = [result EXCEPT
          ![id] = [StepDone(@, "cleanup") EXCEPT !.success = TRUE]]
    /\ pc' = [pc EXCEPT ![id] = "exiting"]
    /\ UNCHANGED <<service_state, monitor_state, next_id, cur, req, local>>
    /\ UNCHANGED <<recorder_state, monitor_task>>

----------------------------------------------------------------------------
(* record_show, the outer handlers and the way out.                        *)

\* error_details as the handlers build it: e.to_dict() of a
\* RecordingStepError, or the type / message / traceback of anything else.
ErrorDetails(err) ==
    [kind      |-> err.class,
     retryable |-> IF err.class = "unexpected" THEN FALSE ELSE err.retryable,
     reasons   |-> <<>>]

\* Fault seeded for C13: the "except Exception" clause is missing.
CaughtStepErrorsOnly(class) == class \in {"ValidationError", "WorkflowError"}

\* Whether one of the two except clauses of record_show takes an exception
\* of this class: RecordingStepError and its subclasses by the first,
\* every other Exception by the second.
Caught(class) == class \in {"ValidationError", "WorkflowError", "unexpected"}

\* Lines 720-791: "except RecordingStepError" and "except Exception".
\* Both set error_step and error_details, call log_failure_for_recovery
\* and force temp_files_retained.  An exception neither clause takes
\* leaves record_show through the recording context (pc "escaped").
Handler(id, io_ok) ==
    /\ cur = id
    /\ pc[id] = "handler"
    /\ IF Caught(local[id].err.class)
       THEN /\ result' = [result EXCEPT
                  ![id].error_step = local[id].err.step,
                  ![id].error_details = ErrorDetails(local[id].err),
                  ![id].temp_files_retained = TRUE]
            /\ recovery_log' = log_failure_for_recovery(recovery_log, id,
                                    req[id].show_key, local[id].temp_files,
                                    local[id].err, io_ok)
            /\ trace' = [trace EXCEPT ![id].log_failed = ~io_ok]
            /\ pc' = [pc EXCEPT ![id] = "exiting"]
       ELSE /\ pc' = [pc EXCEPT ![id] = "escaped"]
            /\ UNCHANGED <<result, recovery_log, trace>>
    /\ UNCHANGED <<rq_active, queue_size, legacy_active, recording_stats,
                   monitor_state, next_id, cur, req, local>>
    /\ UNCHANGED <<recorder_state, monitor_task>>

\* The return statement has fixed the result (pc "exiting"), or an
\* exception is on its way out (pc "escaped"); leaving the "async with"
\* runs _recording_context after its yield: the success branch in the
\* first case, the except branch in the second, the finally block in
\* both.  The frame of the call is gone afterwards.
ExitContext(id) ==
    /\ cur = id
    /\ pc[id] \in {"exiting", "escaped"}
    /\ recording_stats' = ContextExit(recording_stats, pc[id] = "escaped")
    /\ legacy_active' = unregister_recording(legacy_active, id)
    /\ rq_active' = unregister_active_recording(rq_active, id)
    /\ pc' = [pc EXCEPT ![id] = "returned"]
    /\ req' = [req EXCEPT ![id] = NoRequest]
    /\ result' = [result EXCEPT ![id] = InitResult]
    /\ local' = [local EXCEPT ![id] = InitLocal]
    /\ trace' = [trace EXCEPT ![id] = InitTrace]
    /\ cur' = 0
    /\ UNCHANGED <<queue_size, recovery_log, monitor_state, next_id>>
    /\ UNCHANGED <<recorder_state, monitor_task>>

\* An admission rejection returns before the "async with": the caller gets
\* the resource_check result (pc "rejected") and the frame is gone.
ReturnRejected(id) ==
    /\ cur = id
    /\ pc[id] = "rejected"
    /\ pc' = [pc EXCEPT ![id] = "returned"]
    /\ req' = [req EXCEPT ![id] = NoRequest]
    /\ result' = [result EXCEPT ![id] = InitResult]
    /\ local' = [local EXCEPT ![id] = InitLocal]
    /\ trace' = [trace EXCEPT ![id] = InitTrace]
    /\ cur' = 0
    /\ UNCHANGED <<service_state, monitor_state, next_id>>
    /\ UNCHANGED <<recorder_state, monitor_task>>

----------------------------------------------------------------------------
(* ResourceMonitor._monitoring_loop: one round.                            *)

\* The samples psutil can deliver, as far as the thresholds and the
\* admission rules tell them apart.
Samples ==
    {Sample(20, 40, 50, 100),     \* all below the thresholds
     Sample(97, 40, 50, 100),     \* CPU above its threshold and above 95
     Sample(20, 93, 50, 100),     \* memory above its threshold and above 90
     Sample(20, 40, 99, 0)}       \* disk above its threshold, under 1 GB free

MonitorSample(m) ==
    /\ cur = 0
    /\ Running(monitor_task)
    /\ ~monitor_task.stop
    /\ metrics_history' = HistoryAppend(metrics_history, m)
    /\ alert_states' = check_thresholds(alert_states, m)
    /\ UNCHANGED <<service_state, next_id, cur, pc, req, result, local,
                   trace>>
    /\ UNCHANGED <<recorder_state, monitor_task>>

----------------------------------------------------------------------------
(* The inputs and the specification.                                       *)

\* Arguments of record_show: a configured and an unknown show; durations
\* that are not positive, valid, and over the limit (and over the hour);
\* and a duration that is not an integer.
Requests ==
    {[show_key |-> "morning-show", duration_minutes |-> d, is_int |-> TRUE] :
        d \in {0, 30, 500}}
    \cup {[show_key |-> "unknown-show", duration_minutes |-> 30,
           is_int |-> TRUE],
          [show_key |-> "morning-show", duration_minutes |-> 30,
           is_int |-> FALSE]}

\* How the successive starts of the capture tool end: k failures of one
\* retryable kind, then one outcome for every later start.
AttemptSequences ==
    {[i \in 1 .. max_retries + 1 |-> IF i <= k THEN e ELSE o] :
        k \in 0 .. max_retries + 1,
        e \in {"network", "protocol"},
        o \in {"ok", "network", "timeout", "filesystem", "unexpected"}}

Environments ==
    [config_loaded : BOOLEAN, workdir_writable : BOOLEAN, free : {0, 5000}]

Next ==
    \/ \E id \in Calls, r \in Requests :
          RecordShow(id, r.show_key, r.duration_minutes, r.is_int)
    \/ \E id \in Calls : EnterContext(id)
    \/ \E id \in Calls, env \in Environments : Validate(id, env)
    \/ \E id \in Calls, config_ok \in BOOLEAN : PrepareCapture(id, config_ok)
    \/ \E id \in Calls, outs \in AttemptSequences : CaptureDone(id, outs)
    \/ \E id \in Calls, ok \in BOOLEAN : TaggingDone(id, ok)
    \/ \E id \in Calls, o \in TransferOutcomes, info \in BOOLEAN :
          TransferDone(id, o, info)
    \/ \E id \in Calls, ok \in BOOLEAN : Cleanup(id, ok)
    \/ \E id \in Calls, io_ok \in BOOLEAN : Handler(id, io_ok)
    \/ \E id \in Calls : ExitContext(id)
    \/ \E id \in Calls : ReturnRejected(id)
    \/ \E m \in Samples : MonitorSample(m)

Spec == Init /\ [][Next]_vars

----------------------------------------------------------------------------
(* RequestQueue.enqueue_request / dequeue_request.  record_show never      *)
(* calls them; they are the queue's interface to any other client of the   *)
(* service object.  SpecQueue is the service with such a client and with   *)
(* the monitoring loop not started.                                        *)

\* put_nowait: the queue takes the request unless it is full.
enqueue_request(qsize) == IF qsize < MaxQueueSize THEN qsize + 1 ELSE qsize

\* get with a timeout: the queue gives a request unless it is empty.
dequeue_request(qsize) == IF qsize > 0 THEN qsize - 1 ELSE qsize

EnqueueRequest ==
    /\ cur = 0
    /\ queue_size' = enqueue_request(queue_size)
    /\ UNCHANGED <<rq_active, legacy_active, recording_stats, recovery_log,
                   monitor_state, next_id, cur, pc, req, result, local, trace>>
    /\ UNCHANGED <<recorder_state, monitor_task>>

DequeueRequest ==
    /\ cur = 0
    /\ queue_size' = dequeue_request(queue_size)
    /\ UNCHANGED <<rq_active, legacy_active, recording_stats, recovery_log,
                   monitor_state, next_id, cur, pc, req, result, local, trace>>
    /\ UNCHANGED <<recorder_state, monitor_task>>

NextQueue ==
    \/ \E id \in Calls, r \in Requests :
          RecordShow(id, r.show_key, r.duration_minutes, r.is_int)
    \/ \E id \in Calls : EnterContext(id)
    \/ \E id \in Calls, env \in Environments : Validate(id, env)
    \/ \E id \in Calls, config_ok \in BOOLEAN : PrepareCapture(id, config_ok)
    \/ \E id \in Calls, outs \in AttemptSequences : CaptureDone(id, outs)
    \/ \E id \in Calls, ok \in BOOLEAN : TaggingDone(id, ok)
    \/ \E id \in Calls, o \in TransferOutcomes, info \in BOOLEAN :
          TransferDone(id, o, info)
    \/ \E id \in Calls, ok \in BOOLEAN : Cleanup(id, ok)
    \/ \E id \in Calls, io_ok \in BOOLEAN : Handler(id, io_ok)
    \/ \E id \in Calls : ExitContext(id)
    \/ \E id \in Calls : ReturnRejected(id)
    \/ EnqueueRequest
    \/ DequeueRequest

SpecQueue == Init /\ [][NextQueue]_vars

----------------------------------------------------------------------------
(* The admission check with every input it reads in play: the service     *)
(* with a client of the queue and with the monitoring loop running.  What  *)
(* follows the admission is kept to one course: a request that is valid    *)
(* is captured, tagged and transferred without a failure.                  *)

\* Samples that tell the rules of can_accept_recording apart from the
\* thresholds of the monitor.
AdmissionSamples ==
    {Sample(20, 40, 50, 100),     \* healthy
     Sample(85, 40, 50, 100),     \* warning, CPU not above 95
     Sample(97, 40, 50, 100),     \* warning, CPU above 95
     Sample(20, 93, 50, 100),     \* warning, memory above 90
     Sample(20, 40, 99, 0),       \* warning, under 1 GB free
     Sample(20, 40, 85, 0),       \* healthy, under 1 GB free on a small disk
     Sample(97, 93, 99, 0)}       \* warning, all three at once

NextAdmission ==
    \/ \E id \in Calls, r \in Requests :
          RecordShow(id, r.show_key, r.duration_minutes, r.is_int)
    \/ \E id \in Calls : EnterContext(id)
    \/ \E id \in Calls :
          Validate(id, [config_loaded |-> TRUE, workdir_writable |-> TRUE,
                        free |-> 5000])
    \/ \E id \in Calls : PrepareCapture(id, TRUE)
    \/ \E id \in Calls :
          CaptureDone(id, [i \in 1 .. max_retries + 1 |-> "ok"])
    \/ \E id \in Calls : TaggingDone(id, TRUE)
    \/ \E id \in Calls : TransferDone(id, "ok_cleaned", FALSE)
    \/ \E id \in Calls : Cleanup(id, TRUE)
    \/ \E id \in Calls : Handler(id, TRUE)
    \/ \E id \in Calls : ExitContext(id)
    \/ \E id \in Calls : ReturnRejected(id)
    \/ EnqueueRequest
    \/ DequeueRequest
    \/ \E m \in AdmissionSamples : MonitorSample(m)

SpecAdmission == Init /\ [][NextAdmission]_vars

----------------------------------------------------------------------------
(* The registry of RequestQueue under any client: register, unregister    *)
(* and progress updates in every order.  A recording_id is used for one    *)
(* registration only (ids are generated from a UUID).                      *)

\* Step names a client reports, and the keyword sets it passes.
ProgressSteps == {"validation", "stream_recording"}
ProgressKeywords == {{}, {"step_timing", "file_size"}}

\* What the registry is told about a recording does not change what it
\* does: one show and one duration.
RegistryRequests ==
    {[show_key |-> "morning-show", duration_minutes |-> 30, is_int |-> TRUE]}

RegisterActive(id, r) ==
    /\ cur = 0
    /\ id = next_id
    /\ id \in Calls
    /\ rq_active' = register_active_recording(rq_active, id, r.show_key,
                                              r.duration_minutes)
    /\ next_id' = next_id + 1
    /\ UNCHANGED <<queue_size, legacy_active, recording_stats, recovery_log,
                   monitor_state, cur, pc, req, result, local, trace>>
    /\ UNCHANGED <<recorder_state, monitor_task>>

UnregisterActive(id) ==
    /\ cur = 0
    /\ rq_active' = unregister_active_recording(rq_active, id)
    /\ UNCHANGED <<queue_size, legacy_active, recording_stats, recovery_log,
                   monitor_state, next_id, cur, pc, req, result, local, trace>>
    /\ UNCHANGED <<recorder_state, monitor_task>>

UpdateProgress(id, step, kw) ==
    /\ cur = 0
    /\ rq_active' = update_recording_progress(rq_active, id, step, kw)
    /\ UNCHANGED <<queue_size, legacy_active, recording_stats, recovery_log,
                   monitor_state, next_id, cur, pc, req, result, local, trace>>
    /\ UNCHANGED <<recorder_state, monitor_task>>

NextRegistry ==
    \/ \E id \in Calls, r \in RegistryRequests : RegisterActive(id, r)
    \/ \E id \in Calls : UnregisterActive(id)
    \/ \E id \in Calls, step \in ProgressSteps, kw \in ProgressKeywords :
          UpdateProgress(id, step, kw)

SpecRegistry == Init /\ [][NextRegistry]_vars

----------------------------------------------------------------------------
(* StreamRecorder under any client: record_stream taken attempt by         *)
(* attempt, with the capture processes it starts and tracks, and           *)
(* stop_all_recordings.  The arguments of record_stream are valid (an      *)
(* http(s) URL, a duration in 1..480, an output directory that can be      *)
(* made), as record_show passes them.  A call stands at "capturing" while  *)
(* it waits for its capture process, at "backoff" while it sleeps before   *)
(* a retry, and at "stream_done" once record_stream returned, True exactly *)
(* when result.success is set.                                             *)

\* How a capture process can end.  A process that was sent SIGTERM exits
\* with a non-zero code and nothing on stderr that a pattern matches.
CaptureOutcomes ==
    {"ok", "network", "protocol", "filesystem", "empty_output",
     "unknown_exit"}

\* Lines 199-201 and 103-125: _execute_recording returns or raises with
\* outcome o.  The entry under recording_id is popped, whatever process
\* it holds, and the loop of record_stream returns True, sleeps before
\* the next attempt, or gives up.
EndAttempt(id, o) ==
    /\ capture_running' =
          capture_running \ {Process(id, local[id].attempts)}
    /\ active_processes' = Without(active_processes, local[id].key)
    /\ IF o = "ok"
       THEN /\ result' = [result EXCEPT ![id].success = TRUE]
            /\ local' = [local EXCEPT ![id].key = 0]
            /\ pc' = [pc EXCEPT ![id] = "stream_done"]
       ELSE /\ local' = [local EXCEPT
                  ![id].last_error = o,
                  ![id].key = 0,
                  ![id].delay =
                      IF RetryAfter(local[id].attempts - 1, o)
                      THEN BackoffDelay(retry_delay, local[id].attempts)
                      ELSE @]
            /\ pc' = [pc EXCEPT ![id] =
                         IF RetryAfter(local[id].attempts - 1, o)
                         THEN "backoff" ELSE "stream_done"]
            /\ UNCHANGED result

\* Lines 147-157: the capture tool is started and tracked under
\* recording_id = f"{int(time.time())}_{os.getpid()}": the pid is the
\* service's own, so the key is the second of the start.
StartAttempt(id, n, key) ==
    /\ active_processes' = With(active_processes, key, Process(id, n))
    /\ capture_running' = capture_running \cup {Process(id, n)}
    /\ local' = [local EXCEPT ![id].attempts = n, ![id].key = key]
    /\ pc' = [pc EXCEPT ![id] = "capturing"]

\* record_stream is called and runs up to its first suspension: the
\* first attempt starts the capture tool, in the second of the latest
\* start or in a later one.  Without the tool create_subprocess_exec
\* raises FileNotFoundError, which becomes a FileSystemError.
RecordStream(id, same_second, tool_found) ==
    /\ cur = 0
    /\ id = next_id
    /\ id <= CaptureCalls
    /\ pc[id] = "idle"
    /\ same_second \/ clock < MaxClock
    /\ next_id' = next_id + 1
    /\ clock' = IF same_second THEN clock ELSE clock + 1
    /\ IF tool_found
       THEN StartAttempt(id, 1, IF same_second THEN clock ELSE clock + 1)
       ELSE /\ local' = [local EXCEPT ![id].attempts = 1,
                                      ![id].last_error = "no_ffmpeg"]
            /\ pc' = [pc EXCEPT ![id] = "stream_done"]
            /\ UNCHANGED <<active_processes, capture_running>>
    /\ UNCHANGED <<service_state, monitor_state, cur, req, result, trace,
                   stop_all, monitor_task, retry_delay>>

\* Lines 159-185: the wait for the capture process is over within the
\* watchdog's time; the process has exited with outcome o.
AttemptEnds(id, o) ==
    /\ cur = 0
    /\ pc[id] = "capturing"
    /\ Process(id, local[id].attempts) \notin capture_running
          => o = "unknown_exit"
    /\ EndAttempt(id, o)
    /\ UNCHANGED <<service_state, monitor_state, next_id, cur, req, trace,
                   clock, stop_all, monitor_task, retry_delay>>

\* Lines 161-165 and 187-192: the process is still running after
\* (duration + 2) minutes; wait_for raises TimeoutError, the process is
\* sent SIGTERM and record_stream waits up to five seconds for its exit.
WatchdogFires(id) ==
    /\ cur = 0
    /\ pc[id] = "capturing"
    /\ Process(id, local[id].attempts) \in capture_running
    /\ pc' = [pc EXCEPT ![id] = "terminating"]
    /\ UNCHANGED <<service_state, monitor_state, next_id, cur, req, result,
                   local, trace, active_processes, capture_running, clock,
                   stop_all, monitor_task, retry_delay>>

\* Lines 192-197: the five seconds are over.  A process that has exited
\* ends the attempt with StreamError("Recording timed out ..."); one that
\* has not is sent SIGKILL and waited for.
TerminateWaited(id, exited) ==
    /\ cur = 0
    /\ pc[id] = "terminating"
    /\ Process(id, local[id].attempts) \notin capture_running => exited
    /\ IF exited
       THEN EndAttempt(id, "timeout")
       ELSE /\ pc' = [pc EXCEPT ![id] = "killing"]
            /\ UNCHANGED <<result, local, active_processes, capture_running>>
    /\ UNCHANGED <<service_state, monitor_state, next_id, cur, req, trace,
                   clock, stop_all, monitor_task, retry_delay>>

\* Lines 195-201: the killed process has exited; the attempt ends with
\* the same StreamError.
KillWaited(id) ==
    /\ cur = 0
    /\ pc[id] = "killing"
    /\ EndAttempt(id, "timeout")
    /\ UNCHANGED <<service_state, monitor_state, next_id, cur, req, trace,
                   clock, stop_all, monitor_task, retry_delay>>

\* Lines 97-103: the back-off sleep (5 seconds or more) is over and the
\* next attempt starts the capture tool.
RetryStart(id) ==
    /\ cur = 0
    /\ pc[id] = "backoff"
    /\ clock < MaxClock
    /\ clock' = clock + 1
    /\ StartAttempt(id, local[id].attempts + 1, clock + 1)
    /\ UNCHANGED <<service_state, monitor_state, next_id, cur, req, result,
                   trace, stop_all, monitor_task, retry_delay>>

\* Lines 317-335: stop_all_recordings is called and runs up to its first
\* suspension.
StopAllRecordings ==
    /\ cur = 0
    /\ stop_all.phase = "idle"
    /\ LET r == StopLoop(active_processes, Items(active_processes),
                         capture_running)
       IN /\ active_processes' = r.table
          /\ capture_running' = r.running
          /\ stop_all' = [phase     |-> IF r.waiting THEN "waiting"
                                        ELSE "returned",
                          todo      |-> r.todo,
                          in_flight |-> capture_running]
    /\ UNCHANGED <<service_state, monitor_state, next_id, cur, pc, req,
                   result, local, trace, clock, monitor_task, retry_delay>>

\* Lines 327-335: the wait for the terminated process is over; its key is
\* popped and the loop goes on to its next suspension or to its end.
StopWaited ==
    /\ cur = 0
    /\ stop_all.phase = "waiting"
    /\ LET r == StopLoop(Without(active_processes, Head(stop_all.todo).key),
                         Tail(stop_all.todo), capture_running)
       IN /\ active_processes' = r.table
          /\ capture_running' = r.running
          /\ stop_all' = [stop_all EXCEPT
                !.phase = IF r.waiting THEN "waiting" ELSE "returned",
                !.todo = r.todo]
    /\ UNCHANGED <<service_state, monitor_state, next_id, cur, pc, req,
                   result, local, trace, clock, monitor_task, retry_delay>>

NextCapture ==
    \/ \E id \in Calls, same_second \in BOOLEAN, tool_found \in BOOLEAN :
          RecordStream(id, same_second, tool_found)
    \/ \E id \in Calls, o \in CaptureOutcomes : AttemptEnds(id, o)
    \/ \E id \in Calls : WatchdogFires(id)
    \/ \E id \in Calls, exited \in BOOLEAN : TerminateWaited(id, exited)
    \/ \E id \in Calls : KillWaited(id)
    \/ \E id \in Calls : RetryStart(id)
    \/ StopAllRecordings
    \/ StopWaited

SpecCapture == Init /\ [][NextCapture]_vars

----------------------------------------------------------------------------
(* The back-off of record_stream for recorders built with any base delay:  *)
(* calls whose attempts succeed or end in a network error.                 *)

\* retry_delay arguments below, at and above the default, the larger ones
\* reaching the ceiling within max_retries retries.
BaseDelays == {1, 5, 20, 40, 90}

InitAnyDelay == InitService /\ retry_delay \in BaseDelays

NextBackoff ==
    \/ \E id \in Calls, same_second \in BOOLEAN :
          RecordStream(id, same_second, TRUE)
    \/ \E id \in Calls, o \in {"ok", "network"} : AttemptEnds(id, o)
    \/ \E id \in Calls : RetryStart(id)

SpecBackoff == InitAnyDelay /\ [][NextBackoff]_vars

----------------------------------------------------------------------------
(* ResourceMonitor on its own: the monitoring loop with iterations that    *)
(* fail, stop_monitoring and start_monitoring.                             *)

\* Samples on both sides of every threshold in every combination, CPU
\* also exactly at its threshold.
MonitorSamples ==
    {Sample(c, m, d, 100) : c \in {20, 80, 97}, m \in {40, 93}, d \in {50, 99}}

\* Lines 334-336 and 351-356: _collect_metrics raises (psutil fails, the
\* work directory is gone); nothing was appended or evaluated yet.
\* _check_thresholds compares numbers and logs through a LoggerAdapter,
\* and raises nothing.
MonitorSampleFails ==
    /\ cur = 0
    /\ Running(monitor_task)
    /\ ~monitor_task.stop
    /\ monitor_task.errors < MaxErrors
    /\ monitor_task' = IterationFailed(monitor_task)
    /\ UNCHANGED <<service_state, monitor_state, next_id, cur, pc, req,
                   result, local, trace, recorder_state>>

\* stop_monitoring, lines 320-325, up to its suspension in wait_for: the
\* stop event is set.  One call at a time.
StopMonitoring ==
    /\ cur = 0
    /\ monitor_task.alive
    /\ monitor_task.stopper = "none"
    /\ monitor_task' = [monitor_task EXCEPT !.stop = TRUE,
                                            !.stopper = "waiting"]
    /\ UNCHANGED <<service_state, monitor_state, next_id, cur, pc, req,
                   result, local, trace, recorder_state>>

\* Line 333: the loop wakes up from its sleep within the five seconds
\* and finds the stop event set.
MonitorExits ==
    /\ cur = 0
    /\ Running(monitor_task)
    /\ monitor_task.stop
    /\ monitor_task' = [monitor_task EXCEPT
           !.alive = FALSE,
           !.loops = @ - 1,
           !.stopper = IF @ = "waiting" THEN "finished" ELSE @]
    /\ UNCHANGED <<service_state, monitor_state, next_id, cur, pc, req,
                   result, local, trace, recorder_state>>

\* Line 325: the five seconds pass with the loop in its sleep of
\* monitoring_interval seconds; wait_for cancels the task it waits for
\* and the task ends, CancelledError passing its "except Exception".
StopTimesOut ==
    /\ cur = 0
    /\ monitor_task.stopper = "waiting"
    /\ Running(monitor_task)
    /\ monitor_task' = [monitor_task EXCEPT !.alive = FALSE,
                                            !.loops = @ - 1,
                                            !.stopper = "timeout"]
    /\ UNCHANGED <<service_state, monitor_state, next_id, cur, pc, req,
                   result, local, trace, recorder_state>>

\* Lines 325-329: stop_monitoring runs on after wait_for and returns;
\* after a TimeoutError it cancels the task that self._monitoring_task
\* names now.
StopReturns ==
    /\ cur = 0
    /\ monitor_task.stopper \in {"finished", "timeout"}
    /\ monitor_task' = [monitor_task EXCEPT
           !.stopper = "none",
           !.cancelled = IF monitor_task.stopper = "timeout"
                         THEN monitor_task.alive ELSE @]
    /\ UNCHANGED <<service_state, monitor_state, next_id, cur, pc, req,
                   result, local, trace, recorder_state>>

\* The cancellation requested at line 327 reaches the task, at its start
\* or in its sleep; a wait_for on the task ends with it.
CancelDelivered ==
    /\ cur = 0
    /\ monitor_task.alive
    /\ monitor_task.cancelled
    /\ monitor_task' = [monitor_task EXCEPT
           !.alive = FALSE,
           !.cancelled = FALSE,
           !.loops = @ - 1,
           !.stopper = IF @ = "waiting" THEN "finished" ELSE @]
    /\ UNCHANGED <<service_state, monitor_state, next_id, cur, pc, req,
                   result, local, trace, recorder_state>>

\* start_monitoring is called; it has no suspension.
StartMonitoring ==
    /\ cur = 0
    /\ monitor_task' = start_monitoring(monitor_task)
    /\ UNCHANGED <<service_state, monitor_state, next_id, cur, pc, req,
                   result, local, trace, recorder_state>>

NextMonitor ==
    \/ \E m \in MonitorSamples : MonitorSample(m)
    \/ MonitorSampleFails
    \/ StopMonitoring
    \/ MonitorExits
    \/ StopTimesOut
    \/ StopReturns
    \/ CancelDelivered
    \/ StartMonitoring

SpecMonitor == Init /\ [][NextMonitor]_vars

----------------------------------------------------------------------------
(* Properties.  A call's result is final, and is what its caller gets,     *)
(* when the call stands at "rejected" (returned by the admission check) or *)
(* at "exiting" (return executed inside the recording context).            *)

HasResult(c) == pc[c] \in {"rejected", "exiting"}

Collaborators == <<"capture", "tagging", "transfer", "cleanup">>

\* The number of collaborators a recording may have called when the given
\* step fails.
CallsUpTo(step) ==
    CASE step = "stream_recording"    -> 1
      [] step = "metadata_processing" -> 2
      [] step = "file_transfer"       -> 3
      [] OTHER                        -> 0

\* C1: in every reachable state the RequestQueue registry holds at most
\* max_concurrent recordings and the legacy _active_recordings registry
\* at most max_concurrent_recordings.
C1_RegistriesBounded ==
    /\ Cardinality(DOMAIN rq_active) <= MaxConcurrent
    /\ Cardinality(legacy_active) <= MaxConcurrent

\* Both registries are full and a further call has just been refused its
\* registration by the RequestQueue.
C1_Witness ==
    /\ Cardinality(DOMAIN rq_active) = MaxConcurrent
    /\ Cardinality(legacy_active) = MaxConcurrent
    /\ \E c \in Calls : pc[c] = "registered" /\ c \notin DOMAIN rq_active

\* C2: a call that has returned has no entry in the RequestQueue registry
\* and none in the legacy registry, whatever way it returned.
C2_NoEntryAfterReturn ==
    \A c \in Calls :
        pc[c] = "returned" => c \notin DOMAIN rq_active /\ c \notin legacy_active

\* Every call has returned, each of them went through the recording
\* context, one of them left a recovery record and one of them none.
C2_Witness ==
    /\ \A c \in Calls : pc[c] = "returned"
    /\ recording_stats.total_recordings = MaxCalls
    /\ \E c \in Calls : LogCount(recovery_log, c) = 1
    /\ \E c \in Calls : LogCount(recovery_log, c) = 0
    /\ rq_active = <<>> /\ legacy_active = {}

\* C3 (as stated): every result with success = false has
\* temp_files_retained = true, the admission rejection included.
C3_FailureRetainsTempFiles ==
    \A c \in Calls :
        HasResult(c) /\ ~result[c].success => result[c].temp_files_retained

C5_FourthCallRefusedAtAdmission ==
    \A c \in Calls :
        trace[c].admission.at_ceiling
        => /\ pc[c] = "rejected"
           /\ result[c].error_step = "resource_check"
           /\ c \notin DOMAIN rq_active

\* C6: when capture, tagging, transfer with local cleanup, and temp-file
\* cleanup all succeeded, the result has success = true, steps_completed
\* equal to the six steps in order, and temp_files_retained = false.
C6_SuccessResult ==
    \A c \in Calls :
        /\ pc[c] = "exiting"
        /\ trace[c].invoked = Collaborators
        /\ trace[c].transfer = "ok_cleaned"
        /\ trace[c].cleanup_ok
        => /\ result[c].success
           /\ result[c].steps_completed = Steps
           /\ ~result[c].temp_files_retained

\* A recording returns after all four collaborators succeeded.
C6_Witness ==
    \E c \in Calls :
        /\ pc[c] = "exiting"
        /\ trace[c].invoked = Collaborators
        /\ trace[c].transfer = "ok_cleaned"
        /\ trace[c].cleanup_ok
        /\ result[c].success

\* C7: within one recording the collaborators are called in the order
\* capture, tagging, transfer, cleanup, each at most once and each only
\* after the steps before it completed; once a step has raised, no
\* collaborator beyond that step has been called and steps_completed is a
\* proper prefix of the six steps.
C7_OrderedShortCircuit ==
    \A c \in Calls :
        /\ IsPrefix(trace[c].invoked, Collaborators)
        /\ trace[c].invoked # <<>>
           => Len(trace[c].invoked) < Len(result[c].steps_completed)
        /\ IsPrefix(result[c].steps_completed, Steps)
        /\ local[c].err # NoError
           => /\ Len(trace[c].invoked) <= CallsUpTo(local[c].err.step)
              /\ Len(result[c].steps_completed) < Len(Steps)
              /\ ~result[c].success

\* A recording fails in the transfer step after capture and tagging, and
\* returns without having called the cleanup.
C7_Witness ==
    \E c \in Calls :
        /\ pc[c] = "exiting"
        /\ local[c].err.step = "file_transfer"
        /\ trace[c].invoked = <<"capture", "tagging", "transfer">>
        /\ result[c].steps_completed =
               <<"validation", "temp_path_generation", "stream_recording",
                 "metadata_processing">>

\* C8: the current_step of a registered recording never moves back along
\* not_started, validation, temp_path_generation, stream_recording,
\* metadata_processing, file_transfer, cleanup.
C8_CurrentStepForward ==
    [][\A c \in DOMAIN rq_active \cap DOMAIN rq_active' :
          StepRank(rq_active[c].current_step)
              <= StepRank(rq_active'[c].current_step)]_vars

\* A registered recording has reached file_transfer.
C8_Witness ==
    \E c \in DOMAIN rq_active :
        /\ rq_active[c].current_step = "file_transfer"
        /\ rq_active[c].steps_completed =
               <<"validation", "stream_recording", "metadata_processing",
                 "file_transfer">>

\* C9 (as stated): when a recording returns with success, the current_step
\* of its RecordingMetrics has taken each of the six step values in turn.
C9_EveryStepSeen ==
    \A c \in Calls :
        pc[c] = "exiting" /\ result[c].success
        => trace[c].steps_seen = Steps

\* C10: when record_stream reports failure, the result has success = false,
\* error_step "stream_recording", retryable = true in error_details and
\* temp_files_retained = true, and the recovery log holds exactly one
\* record for the recording (its write not having failed).
C10_CaptureFailureResult ==
    \A c \in Calls :
        pc[c] = "exiting" /\ local[c].err.step = "stream_recording"
        => /\ ~result[c].success
           /\ result[c].error_step = "stream_recording"
           /\ result[c].error_details.retryable
           /\ result[c].temp_files_retained
           /\ ~trace[c].log_failed => LogCount(recovery_log, c) = 1

\* A recording returns after the capture failed on every one of the
\* max_retries + 1 attempts.
C10_Witness ==
    \E c \in Calls :
        /\ pc[c] = "exiting"
        /\ local[c].err.step = "stream_recording"
        /\ local[c].attempts = max_retries + 1
        /\ result[c].error_step = "stream_recording"
        /\ LogCount(recovery_log, c) = 1

\* C11: when the tagging step raises, the result has success = false,
\* error_step "metadata_processing" and retryable = false, neither the
\* transfer nor the orchestrator's temp-file cleanup has been called, and
\* the recovery record of the recording (its write not having failed)
\* lists the raw recording's temp path.
C11_TaggingFailureResult ==
    \A c \in Calls :
        pc[c] = "exiting" /\ local[c].err.step = "metadata_processing"
        => /\ ~result[c].success
           /\ result[c].error_step = "metadata_processing"
           /\ ~result[c].error_details.retryable
           /\ trace[c].invoked = <<"capture", "tagging">>
           /\ RawPath(c) \in Range(local[c].temp_files)
           /\ ~trace[c].log_failed
              => \E r \in BagToSet(recovery_log) :
                    /\ r.recording_id = c
                    /\ RawPath(c) \in Range(r.temp_files)

\* A recording returns after its tagging raised, with its recovery record
\* written.
C11_Witness ==
    \E c \in Calls :
        /\ pc[c] = "exiting"
        /\ local[c].err.step = "metadata_processing"
        /\ result[c].error_step = "metadata_processing"
        /\ \E r \in BagToSet(recovery_log) :
              r.recording_id = c /\ r.temp_files = <<RawPath(c)>>

\* C12 (as stated): a request whose duration is not an integer or lies
\* outside 1 .. 480 is never registered: while the call runs its id is in
\* neither registry, the capture is never called, and the call ends in a
\* non-retryable ValidationError.
C12_InvalidDurationNeverRegistered ==
    \A c \in Calls :
        /\ pc[c] \notin {"idle", "returned"}
        /\ \/ ~req[c].is_int
           \/ req[c].duration_minutes \notin 1 .. MaxDuration
        => /\ c \notin DOMAIN rq_active
           /\ c \notin legacy_active
           /\ trace[c].invoked = <<>>
           /\ pc[c] = "exiting"
              => /\ result[c].error_details.kind = "ValidationError"
                 /\ ~result[c].error_details.retryable

C14_StatisticsOncePerRequest ==
    [][/\ recording_stats'.total_recordings =
             recording_stats.total_recordings +
             Cardinality({c \in Calls : pc[c] = "admitted"
                                          /\ pc'[c] = "registered"})
       /\ \A c \in Calls :
             pc[c] = "exiting" /\ pc'[c] = "returned"
             => IF result[c].success
                THEN /\ recording_stats'.successful_recordings =
                            recording_stats.successful_recordings + 1
                     /\ recording_stats'.failed_recordings =
                            recording_stats.failed_recordings
                ELSE /\ recording_stats'.failed_recordings =
                            recording_stats.failed_recordings + 1
                     /\ recording_stats'.successful_recordings =
                            recording_stats.successful_recordings]_vars

\* C17: in every state the steps that have a timing or a file size in an
\* active RecordingMetrics are among its steps_completed, and the steps
\* that have a timing in a result are among the result's steps_completed.
C17_MetricKeysAreCompletedSteps ==
    /\ \A c \in DOMAIN rq_active :
          /\ rq_active[c].step_timings \subseteq
                 Range(rq_active[c].steps_completed)
          /\ rq_active[c].file_sizes \subseteq
                 Range(rq_active[c].steps_completed)
    /\ \A c \in Calls :
          result[c].step_timings \subseteq Range(result[c].steps_completed)

\* A registered recording has timings for four steps and file sizes for
\* two, and its result has timings for five.
C17_Witness ==
    \E c \in DOMAIN rq_active :
        /\ rq_active[c].file_sizes =
               {"stream_recording", "metadata_processing"}
        /\ Cardinality(rq_active[c].step_timings) = 4
        /\ Cardinality(result[c].step_timings) = 5

\* C18 (as stated): when every step through file_transfer succeeded and a
\* deletion of the cleanup step failed, the result has success = true
\* and temp_files_retained = true.
C18_CleanupFailureRetainsFiles ==
    \A c \in Calls :
        /\ pc[c] = "exiting"
        /\ trace[c].invoked = Collaborators
        /\ ~trace[c].cleanup_ok
        => result[c].success /\ result[c].temp_files_retained

\* C19 (as stated): every call that returns success = false has appended
\* a recovery record carrying its recording_id (the write of the record
\* not having failed).
C19_EveryFailureLogged ==
    \A c \in Calls :
        HasResult(c) /\ ~result[c].success /\ ~trace[c].log_failed
        => LogCount(recovery_log, c) >= 1

\* C15: from a registry below capacity, registering a new id and then
\* unregistering it leaves the id absent and the registry as it was, the
\* count included; unregistering once more, or unregistering an id that
\* is not registered, changes nothing.
C15_RegisterUnregisterRoundTrip ==
    \A id \in Calls \ DOMAIN rq_active, r \in RegistryRequests :
        LET a == register_active_recording(rq_active, id, r.show_key,
                                           r.duration_minutes)
            b == unregister_active_recording(a, id)
        IN /\ Cardinality(DOMAIN rq_active) < MaxConcurrent
              => /\ id \in DOMAIN a
                 /\ Cardinality(DOMAIN a) = Cardinality(DOMAIN rq_active) + 1
                 /\ id \notin DOMAIN b
                 /\ Cardinality(DOMAIN b) = Cardinality(DOMAIN rq_active)
                 /\ b = rq_active
                 /\ unregister_active_recording(b, id) = b
           /\ unregister_active_recording(rq_active, id) = rq_active

\* The third recording was registered beside two others and unregistered
\* again: the two are what the registry holds, one of them with progress.
C15_Witness ==
    /\ next_id = 4
    /\ DOMAIN rq_active = {1, 2}
    /\ rq_active[1].steps_completed # <<>>

NoDuplicates(s) == \A i, j \in 1 .. Len(s) : s[i] = s[j] => i = j

\* C16: whatever progress updates a client sends and in whatever order,
\* steps_completed never holds a step twice, holds the step of the latest
\* update, and only grows at its end: a step keeps the position its first
\* update gave it.
C16_ProgressStepOnce ==
    [][\A id \in DOMAIN rq_active' :
          /\ NoDuplicates(rq_active'[id].steps_completed)
          /\ rq_active'[id].current_step \in
                 Range(rq_active'[id].steps_completed) \cup {"not_started"}
          /\ id \in DOMAIN rq_active
             => IsPrefix(rq_active[id].steps_completed,
                         rq_active'[id].steps_completed)]_vars

\* stream_recording was reported, then validation, then stream_recording
\* again: it is still first, and there once.
C16_Witness ==
    \E id \in DOMAIN rq_active :
        /\ rq_active[id].steps_completed = <<"stream_recording", "validation">>
        /\ rq_active[id].current_step = "stream_recording"

\* C20: can_accept_recording refuses exactly when one of its four rules
\* applies to what the queue and the monitor show, with one reason per
\* rule that applies and no other; so no reasons means accepted, and with
\* the status healthy or no_data no resource rule refuses.  Stated for a
\* call between its admission check and its next statement, when the
\* queue, the registry and the monitor are what the check read.
C20_AdmissionRules ==
    \A c \in Calls :
        pc[c] \in {"admitted", "rejected"}
        => LET rs == get_resource_summary(metrics_history, alert_states)
               d == req[c].duration_minutes
               warning == rs.status = "warning"
               holds ==
                   (IF /\ Cardinality(DOMAIN rq_active) >= MaxConcurrent
                       /\ queue_size >= MaxQueueSize
                    THEN {"Queue is full and no recording slots available"}
                    ELSE {})
                   \cup
                   (IF warning /\ rs.current.memory_percent > 90 /\ d > 60
                    THEN {"High memory usage - rejecting long recordings"}
                    ELSE {})
                   \cup
                   (IF warning /\ rs.current.cpu_percent > 95
                    THEN {"Very high CPU usage"}
                    ELSE {})
                   \cup
                   (IF warning /\ rs.current.disk_free_gb < 1
                    THEN {"Insufficient disk space"}
                    ELSE {})
               a == trace[c].admission
           IN /\ a.made
              /\ a.can_accept <=> holds = {}
              /\ Range(a.reasons) = holds
              /\ Len(a.reasons) = Cardinality(holds)
              /\ a.reasons = <<>> <=> a.can_accept
              /\ rs.status \in {"healthy", "no_data"}
                 => Range(a.reasons) \subseteq
                       {"Queue is full and no recording slots available"}
              /\ pc[c] = "rejected" <=> ~a.can_accept

\* A request is refused for all four reasons at once.
C20_Witness ==
    \E c \in Calls :
        /\ pc[c] = "rejected"
        /\ Len(trace[c].admission.reasons) = 4
        /\ result[c].error_details.reasons = trace[c].admission.reasons

----------------------------------------------------------------------------
(* The capture adapter.                                                    *)

\* The outcomes that raise a FileSystemError.
FileSystemErrors == {"filesystem", "empty_output", "no_ffmpeg"}

\* C21 as the specification states it: one record_stream call starts the
\* capture tool at most max_retries (3) times.
C21_AtMostAttemptLimitStarts ==
    \A c \in Calls : local[c].attempts <= max_retries

\* C21: one record_stream call starts the capture tool at most
\* max_retries + 1 times, the first attempt and max_retries retries, and
\* it sleeps before a retry only when fewer than that many have run, even
\* when every attempt fails with a retryable error.
C21_AtMostRetriesPlusOneStarts ==
    \A c \in Calls :
        /\ local[c].attempts <= max_retries + 1
        /\ pc[c] = "backoff" => local[c].attempts <= max_retries
        /\ \A p \in capture_running : p.call = c => p.attempt <= max_retries + 1

\* A call gave up after max_retries + 1 starts that all ended in a
\* retryable error.
C21_Witness ==
    \E c \in Calls :
        /\ pc[c] = "stream_done"
        /\ ~result[c].success
        /\ local[c].attempts = max_retries + 1
        /\ local[c].last_error \in {"network", "protocol", "unknown_exit"}

\* C22: an attempt that ends in a file system error (a file system
\* message of the tool, exit code 0 with a missing or empty output file,
\* or the tool missing) is the call's last: record_stream returns False
\* without another attempt.  A call sleeps before a retry, or runs a
\* second or later attempt, only after an error of another class.
C22_FileSystemErrorEndsAttempts ==
    [][\A c \in Calls :
          /\ (/\ pc[c] \in {"idle", "capturing"}
              /\ pc'[c] # pc[c]
              /\ ~result'[c].success
              /\ local'[c].last_error \in FileSystemErrors)
             => /\ pc'[c] = "stream_done"
                /\ local'[c].attempts = IF pc[c] = "idle" THEN 1
                                        ELSE local[c].attempts
          /\ (pc'[c] = "backoff" \/ local'[c].attempts > 1)
             => \/ local'[c].last_error \notin FileSystemErrors
                \/ /\ pc'[c] = "stream_done"
                   /\ ~result'[c].success
          /\ (pc[c] = "stream_done" /\ ~result[c].success)
             => /\ pc'[c] = "stream_done"
                /\ local'[c] = local[c]
                /\ ~result'[c].success]_vars

\* A second attempt ended in a file system error and the call returned
\* False with two of its four attempts unused.
C22_Witness ==
    \E c \in Calls :
        /\ pc[c] = "stream_done"
        /\ ~result[c].success
        /\ local[c].attempts = 2
        /\ local[c].last_error = "empty_output"

\* C23: an attempt that ends in a "protocol not found" or "invalid url"
\* stream error is the call's last: record_stream returns False without
\* another attempt.
C23_ProtocolErrorEndsAttempts ==
    [][\A c \in Calls :
          (/\ pc[c] = "capturing"
           /\ pc'[c] # "capturing"
           /\ ~result'[c].success
           /\ local'[c].last_error = "protocol")
          => pc'[c] = "stream_done"]_vars

\* C24: when stop_all_recordings returns, no capture process that was
\* running when it was called is still running or still tracked.
C24_StopAllTerminatesEveryCapture ==
    [][(stop_all.phase # "returned" /\ stop_all'.phase = "returned")
       => /\ stop_all'.in_flight \cap capture_running' = {}
          /\ \A k \in DOMAIN active_processes' :
                active_processes'[k] \notin stop_all'.in_flight]_vars

----------------------------------------------------------------------------
(* The resource monitor.                                                   *)

AlarmNames == {"cpu", "memory", "disk"}

\* Whether sample m is over the threshold of alarm a.
Exceeded(m, a) ==
    CASE a = "cpu"    -> m.cpu_percent > cpu_threshold
      [] a = "memory" -> m.memory_percent > memory_threshold
      [] a = "disk"   -> m.disk_usage_percent > disk_threshold

\* C25: in an iteration that takes sample m, each alarm logs a warning
\* exactly when it goes from normal to exceeded and a recovery exactly when
\* it goes from exceeded to normal, and ends as m stands to its own
\* threshold, whatever the other two metrics are.  The alarms start
\* normal, so each alarm's events alternate, a warning first.
C25_AlarmsEdgeTriggered ==
    [][metrics_history' # metrics_history
       => LET m == metrics_history'[Len(metrics_history')]
              ev == threshold_events(alert_states, m)
          IN \A a \in AlarmNames :
                /\ ev[a] = "warning" <=> ~alert_states[a] /\ alert_states'[a]
                /\ ev[a] = "recovery" <=> alert_states[a] /\ ~alert_states'[a]
                /\ alert_states'[a] = Exceeded(m, a)]_vars

\* A sample with the CPU exactly at its threshold and the two other
\* metrics over theirs was evaluated: the CPU alarm is normal, the memory
\* alarm and the disk alarm are set.
C25_Witness ==
    /\ metrics_history # <<>>
    /\ alert_states = [cpu |-> FALSE, memory |-> TRUE, disk |-> TRUE]
    /\ metrics_history[Len(metrics_history)].cpu_percent = 80

\* C26: an iteration of the monitoring loop that raises appends nothing to
\* the history, leaves the alert states as they are and leaves the task
\* running with the stop event as it was, so that the loop samples again
\* unless a stop was requested; and the task ends only after a stop or a
\* cancellation was requested.
C26_FailedIterationKeepsLoop ==
    /\ [][monitor_task'.errors # monitor_task.errors
          => /\ metrics_history' = metrics_history
             /\ alert_states' = alert_states
             /\ monitor_task'.alive
             /\ monitor_task'.stop = monitor_task.stop]_vars
    /\ [][monitor_task.alive /\ ~monitor_task'.alive
          => monitor_task.stop \/ monitor_task.cancelled]_vars

\* Two iterations failed, the task runs, and a sample is in the history.
C26_Witness ==
    /\ monitor_task.errors = 2
    /\ monitor_task.alive
    /\ ~monitor_task.stop
    /\ metrics_history # <<>>

----------------------------------------------------------------------------
(* Failure logging, the disk check of the validation, and the registry.    *)

\* C27: a call whose failure could not be written to the recovery log
\* returns all the same, with the result a logged failure has: success
\* False, error_step the step of the error, temp_files_retained True; and
\* the log holds no record of that call.
C27_LogFailureNeverRaises ==
    \A c \in Calls :
        (pc[c] = "exiting" /\ local[c].err # NoError)
        => /\ ~result[c].success
           /\ result[c].error_step = local[c].err.step
           /\ result[c].error_details = ErrorDetails(local[c].err)
           /\ result[c].temp_files_retained
           /\ LogCount(recovery_log, c) = IF trace[c].log_failed THEN 0 ELSE 1

\* The record of a failed tagging could not be written; the call returns
\* its failure result and the log has nothing of it.
C27_Witness ==
    \E c \in Calls :
        /\ pc[c] = "exiting"
        /\ trace[c].log_failed
        /\ result[c].error_step = "metadata_processing"
        /\ result[c].temp_files_retained
        /\ LogCount(recovery_log, c) = 0

\* C28: a call that stands before its validation is refused by it
\* whenever the work directory's disk has less than 100 MB free.
C28_CriticalDiskSpaceRejected ==
    \A c \in Calls :
        pc[c] = "registered"
        => \A env \in Environments :
              env.free < 100
              => ValidationFailure(legacy_active, req[c], env) # "none"

\* C29: a registration at capacity returns False and leaves the registry
\* as it is; below capacity it returns True and adds the one entry; the
\* check and the insertion are one step, so the registry never holds more
\* than max_concurrent entries and of two registrations for the last slot
\* the second finds the registry full.
C29_RegisterAtCapacity ==
    /\ [][next_id' # next_id
          => LET full == Cardinality(DOMAIN rq_active) >= MaxConcurrent IN
             /\ RegisterAccepts(rq_active) <=> ~full
             /\ full => rq_active' = rq_active
             /\ ~full
                => /\ DOMAIN rq_active' = DOMAIN rq_active \cup {next_id}
                   /\ \A id \in DOMAIN rq_active :
                         rq_active'[id] = rq_active[id]]_vars
    /\ [](Cardinality(DOMAIN rq_active) <= MaxConcurrent)

\* Recordings 1 to 3 are registered and the registration of recording 4
\* was refused.
C29_Witness ==
    /\ next_id = 5
    /\ DOMAIN rq_active = {1, 2, 3}

\* C30: a progress update for a recording_id that is not registered
\* leaves the registry exactly as it is: no entry is created and no entry
\* changes.
C30_UnknownIdProgressIsNoOp ==
    \A id \in Calls \ DOMAIN rq_active :
        \A step \in ProgressSteps, kw \in ProgressKeywords :
            update_recording_progress(rq_active, id, step, kw) = rq_active

\* Recording 1 was unregistered and recording 2 has made progress: an
\* update for recording 1 is an update for an unknown id.
C30_Witness ==
    /\ next_id = 3
    /\ DOMAIN rq_active = {2}
    /\ rq_active[2].steps_completed = <<"validation", "stream_recording">>

\* C31: when the watchdog of (duration + 2) minutes fires, the capture
\* process is terminated, and killed if the five seconds of grace pass
\* without its exit.  When the handling is over the process has exited,
\* no entry of the tracked set holds it, and the attempt has ended in a
\* timeout, which is retried while attempts remain; so a call that sleeps
\* before its next attempt has no process running or tracked.
C31_TimeoutEndsProcessBeforeRetry ==
    /\ [][\A c \in Calls :
             /\ (/\ pc[c] \in {"terminating", "killing"}
                 /\ pc'[c] \notin {"terminating", "killing"})
                => /\ Process(c, local[c].attempts) \notin capture_running'
                   /\ \A k \in DOMAIN active_processes' :
                         active_processes'[k] # Process(c, local[c].attempts)
                   /\ local'[c].last_error = "timeout"
                   /\ pc'[c] = IF local[c].attempts <= max_retries
                               THEN "backoff" ELSE "stream_done"
             /\ (pc'[c] = "killing" /\ pc[c] # "killing")
                => /\ pc[c] = "terminating"
                   /\ Process(c, local[c].attempts) \in capture_running
             /\ (pc'[c] = "terminating" /\ pc[c] # "terminating")
                => pc[c] = "capturing"]_vars
    /\ [](\A c \in Calls :
             pc[c] = "backoff"
             => \A n \in 1..(max_retries + 1) :
                   /\ Process(c, n) \notin capture_running
                   /\ \A k \in DOMAIN active_processes :
                         active_processes[k] # Process(c, n))

\* The first attempt of a call timed out and its second attempt is
\* running.
C31_Witness ==
    \E c \in Calls :
        /\ pc[c] = "capturing"
        /\ local[c].attempts = 2
        /\ local[c].last_error = "timeout"
        /\ Process(c, 2) \in capture_running
        /\ Process(c, 1) \notin capture_running

\* C32: the first attempt starts without a sleep; the sleep before the
\* k-th retry is retry_delay * 2^(k-1) seconds, cut at 60: 5, 10 and 20
\* with the default.  The sleeps of a call never decrease and none is
\* longer than 60 seconds.
C32_BackoffDoublesUpToCeiling ==
    /\ [](\A c \in Calls :
             /\ local[c].delay <= 60
             /\ local[c].attempts <= 1 /\ pc[c] # "backoff"
                => local[c].delay = 0
             /\ pc[c] = "backoff"
                => /\ retry_delay * 2 ^ (local[c].attempts - 1) <= 60
                      => local[c].delay =
                            retry_delay * 2 ^ (local[c].attempts - 1)
                   /\ retry_delay * 2 ^ (local[c].attempts - 1) > 60
                      => local[c].delay = 60
             /\ retry_delay = 5 => local[c].delay \in {0, 5, 10, 20})
    /\ [][\A c \in Calls : local'[c].delay >= local[c].delay]_vars

\* A recorder with a base delay of 20 seconds sleeps 60 seconds, not 80,
\* before the third retry of a call.
C32_Witness ==
    \E c \in Calls :
        /\ retry_delay = 20
        /\ pc[c] = "backoff"
        /\ local[c].attempts = 3
        /\ local[c].delay = 60

\* C38: a recording whose capture process was terminated by
\* stop_all_recordings starts no new capture process: the attempt whose
\* process was terminated ends record_stream.
C38_TerminatedCaptureNotRetried ==
    [][\A c \in Calls :
          (/\ pc[c] = "capturing"
           /\ Process(c, local[c].attempts) \in stop_all.in_flight
           /\ Process(c, local[c].attempts) \notin capture_running
           /\ pc'[c] # "capturing")
          => pc'[c] = "stream_done"]_vars

\* C39: at no time more than one task of the monitoring loop is running,
\* and whenever no call of stop_monitoring is in progress a call of
\* start_monitoring leaves a running loop behind.
C39_SingleLoopRestartable ==
    /\ monitor_task.loops <= 1
    /\ monitor_task.stopper = "none"
       => Running(start_monitoring(monitor_task))

\* C33: two distinct recordings that are both under way use no path in
\* common, for the raw recording or for the processed file.
C33_ArtifactPathsDisjoint ==
    \A c \in Calls, d \in Calls :
        (c # d /\ pc[c] # "idle" /\ pc[d] # "idle"
              /\ ~HasResult(c) /\ ~HasResult(d))
        => Range(local[c].temp_files) \cap Range(local[d].temp_files) = {}

----------------------------------------------------------------------------
(* The /record endpoint.                                                   *)

\* main.py, lines 218-278: the status of the response for a result of
\* record_show.
http_status(r) ==
    IF r.success THEN 200
    ELSE IF r.error_step \in {"validation", "configuration_validation",
                              "parameter_validation"} THEN 400
    ELSE IF r.error_step = "concurrency_check" THEN 503
    ELSE 500

\* C34: a request refused by the admission check (error_step
\* "resource_check"), or by the validation because the ceiling of
\* concurrent recordings is reached, is answered with status 503; one
\* that failed the validation for another reason with status 400.  (The
\* call holds the event loop from the validation to its result, so the
\* ceiling is reached at the result exactly when it was at the
\* validation.)
C34_CapacityRefusalIs503 ==
    \A c \in Calls :
        HasResult(c) /\ ~result[c].success
        => /\ result[c].error_step = "resource_check"
              => http_status(result[c]) = 503
           /\ result[c].error_step = "validation"
              => http_status(result[c]) =
                    IF Cardinality(legacy_active) >= MaxConcurrent
                    THEN 503 ELSE 400

----------------------------------------------------------------------------
(* The ceiling of concurrent recordings.                                   *)

\* C35: the recordings that have passed the validation and have not yet
\* returned are at most max_concurrent_recordings at any time.
C35_InFlightWithinCeiling ==
    Cardinality({c \in Calls :
                    /\ pc[c] \notin {"idle", "rejected", "returned"}
                    /\ "validation" \in Range(result[c].steps_completed)})
        <= MaxConcurrent

\* Three recordings wait for their capture, their tagging or their
\* transfer, and the validation has refused a fourth call.
C35_Witness ==
    \E c \in Calls :
        /\ pc[c] = "exiting"
        /\ result[c].error_step = "validation"
        /\ Cardinality({d \in Calls :
                           pc[d] \in {"capture_wait", "tagging", "transfer"}})
              = MaxConcurrent

\* C36: every recording that waits for its capture, its tagging or its
\* transfer has an entry in the registry of the request queue: a call
\* whose registration was refused gets no further than the validation.
C36_CaptureOnlyWhenRegistered ==
    \A c \in Calls :
        pc[c] \in {"validated", "capture_wait", "tagging", "transfer"}
        => c \in DOMAIN rq_active

\* register_active_recording has returned False for a call, with three
\* registered recordings under way; the call is about to be validated.
C36_Witness ==
    \E c \in Calls :
        /\ pc[c] = "registered"
        /\ c \notin DOMAIN rq_active
        /\ Cardinality({d \in DOMAIN rq_active :
                           pc[d] \in {"capture_wait", "tagging", "transfer"}})
              = MaxConcurrent

----------------------------------------------------------------------------
(* The statistics under a client that resets them: record_show on valid    *)
(* and invalid requests, each step without a failure, and                   *)
(* reset_statistics between any two runs of the calls.                      *)

\* reset_statistics, lines 1294-1302.
reset_statistics(stats) ==
    [total_recordings |-> 0, successful_recordings |-> 0,
     failed_recordings |-> 0]

ResetStatistics ==
    /\ cur = 0
    /\ recording_stats' = reset_statistics(recording_stats)
    /\ UNCHANGED <<rq_active, queue_size, legacy_active, recovery_log,
                   monitor_state, next_id, cur, pc, req, result, local, trace>>
    /\ UNCHANGED <<recorder_state, monitor_task>>

NextStatistics ==
    \/ \E id \in Calls, r \in Requests :
          RecordShow(id, r.show_key, r.duration_minutes, r.is_int)
    \/ \E id \in Calls : EnterContext(id)
    \/ \E id \in Calls :
          Validate(id, [config_loaded |-> TRUE, workdir_writable |-> TRUE,
                        free |-> 5000])
    \/ \E id \in Calls, config_ok \in BOOLEAN : PrepareCapture(id, config_ok)
    \/ \E id \in Calls :
          CaptureDone(id, [i \in 1 .. max_retries + 1 |-> "ok"])
    \/ \E id \in Calls : TaggingDone(id, TRUE)
    \/ \E id \in Calls : TransferDone(id, "ok_cleaned", FALSE)
    \/ \E id \in Calls : Cleanup(id, TRUE)
    \/ \E id \in Calls : Handler(id, TRUE)
    \/ \E id \in Calls : ExitContext(id)
    \/ ResetStatistics

SpecStatistics == Init /\ [][NextStatistics]_vars

\* C37: the recordings counted as successful and as failed together are
\* never more than the recordings counted in total, whenever the
\* statistics are reset.
C37_OutcomesWithinTotal ==
    recording_stats.successful_recordings + recording_stats.failed_recordings
        <= recording_stats.total_recordings

----------------------------------------------------------------------------
(* Termination of record_show.  The calls go through every course of the   *)
(* workflow: a request that is rejected, invalid or valid, a capture that  *)
(* succeeds or uses up its retries, a tagging and a transfer that succeed  *)
(* or fail.  The event loop runs every call that can run, and every wait   *)
(* for the capture, the worker pool's tagging and its transfer ends.       *)

\* Calls of record_show in the runs checked for termination.
LiveCalls == 3

LiveSamples == {Sample(20, 40, 50, 100), Sample(97, 93, 99, 0)}

LiveAttempts ==
    {[i \in 1 .. max_retries + 1 |-> o] : o \in {"ok", "network"}}

NextLive ==
    \/ \E id \in 1 .. LiveCalls, r \in Requests :
          RecordShow(id, r.show_key, r.duration_minutes, r.is_int)
    \/ \E id \in Calls : EnterContext(id)
    \/ \E id \in Calls :
          Validate(id, [config_loaded |-> TRUE, workdir_writable |-> TRUE,
                        free |-> 5000])
    \/ \E id \in Calls, config_ok \in BOOLEAN : PrepareCapture(id, config_ok)
    \/ \E id \in Calls, outs \in LiveAttempts : CaptureDone(id, outs)
    \/ \E id \in Calls, ok \in BOOLEAN : TaggingDone(id, ok)
    \/ \E id \in Calls, o \in {"ok_cleaned", "failed"}, info \in BOOLEAN :
          TransferDone(id, o, info)
    \/ \E id \in Calls : Cleanup(id, TRUE)
    \/ \E id \in Calls : Handler(id, TRUE)
    \/ \E id \in Calls : ExitContext(id)
    \/ \E id \in Calls : ReturnRejected(id)
    \/ \E m \in LiveSamples : MonitorSample(m)

\* Weak fairness of every step of a call but its start: a coroutine that
\* is ready is run by the event loop, and the awaited capture, tagging
\* and transfer end.
LiveFairness ==
    \A id \in Calls :
        /\ WF_vars(EnterContext(id))
        /\ WF_vars(Validate(id, [config_loaded |-> TRUE,
                                 workdir_writable |-> TRUE, free |-> 5000]))
        /\ WF_vars(\E config_ok \in BOOLEAN : PrepareCapture(id, config_ok))
        /\ WF_vars(\E outs \in LiveAttempts : CaptureDone(id, outs))
        /\ WF_vars(\E ok \in BOOLEAN : TaggingDone(id, ok))
        /\ WF_vars(\E o \in {"ok_cleaned", "failed"}, info \in BOOLEAN :
                      TransferDone(id, o, info))
        /\ WF_vars(Cleanup(id, TRUE))
        /\ WF_vars(Handler(id, TRUE))
        /\ WF_vars(ExitContext(id))
        /\ WF_vars(ReturnRejected(id))

SpecLive == Init /\ [][NextLive]_vars /\ LiveFairness

\* C40: every call of record_show that was started returns, and what it
\* returns is a result: the call stands at its return statement, in or
\* before the recording context, when it returns.
C40_EveryCallReturns ==
    /\ \A c \in 1 .. LiveCalls :
          (pc[c] \notin {"idle", "returned"}) ~> (pc[c] = "returned")
    /\ [][\A c \in 1 .. LiveCalls :
             (pc[c] # "returned" /\ pc'[c] = "returned") => HasResult(c)]_vars

\* Call 1 has returned while call 2 waits for its capture and call 3 for
\* its transfer.
C40_Witness ==
    /\ pc[1] = "returned"
    /\ pc[2] = "capture_wait"
    /\ pc[3] = "transfer"

====
